---- MODULE Spec2Model ----
(***************************************************************************)
(* Model of the fractal ray-marching viewer: the session owned by App      *)
(* (InitializedApp: graphics, held keys, parameters, camera, timing) and   *)
(* the window events that drive it.                                        *)
(*                                                                         *)
(* Numbers.  The program computes in f32; the model computes in integers   *)
(* on fixed grids and rounds where f32 rounds:                             *)
(*   angles      in quarter turns (pi/2 rad), so FULL_TURN = 4;            *)
(*   time steps  in units of pi seconds, so that ROTATION_PER_SECOND       *)
(*               (0.5 rad/s) is one quarter turn per unit;                 *)
(*   cursor      in units of 5236 pixels, so that ROTATION_PER_PIXEL       *)
(*               (0.0003 rad) is one quarter turn per unit;                *)
(*   positions   on the integer lattice of pi world units, so that the     *)
(*               default speed 1.0 is one lattice step per time unit;      *)
(*   rates       (orbit speed, time factor) in units of 0.00001, scroll    *)
(*               deltas in whole scroll units, the linear coefficient of   *)
(*               the smoothing in tenths;                                  *)
(*   movement_per_second in the log domain, in tenths: the f32 value is    *)
(*               exp(v / 10), with codes for 0.0, +inf and NaN, so that    *)
(*               the f32 range (underflow, overflow) is kept.              *)
(***************************************************************************)
EXTENDS Integers, Sequences, FiniteSets, TLC

\* ---------------------------------------------------------------- bounds
MaxReloads == 3
MaxDt == 1
MaxCoord == 2
MaxHeld == 1
MaxFactor == 13
MaxIterations == 2
MaxOrbitRate == 50000
MaxTimeFactor == 1000000
MaxGrabCalls == 3
MaxMoveKeys == 2
MaxKeysDown == 2

\* ------------------------------------------------------- integer helpers
Abs(n) == IF n < 0 THEN -n ELSE n

Sign(n) == IF n < 0 THEN -1 ELSE IF n > 0 THEN 1 ELSE 0

Min2(a, b) == IF a <= b THEN a ELSE b

Max2(a, b) == IF a >= b THEN a ELSE b

\* a / b rounded toward zero (b > 0): the fixed-point rounding of a quotient
TruncDiv(a, b) == Sign(a) * (Abs(a) \div b)

\* Rust's % on numbers: the remainder has the sign of the dividend
TruncRem(a, n) == Sign(a) * (Abs(a) % n)

RECURSIVE Gcd(_, _)
Gcd(a, b) == IF b = 0 THEN a ELSE Gcd(b, a % b)

\* the f32 quotient n / d of two integers, as the fraction in lowest terms
F32Div(n, d) == <<n \div Gcd(n, d), d \div Gcd(n, d)>>

RECURSIVE ISqrtFrom(_, _)
ISqrtFrom(n, r) == IF (r + 1) * (r + 1) > n THEN r ELSE ISqrtFrom(n, r + 1)

\* sqrt rounded down to the grid
ISqrt(n) == ISqrtFrom(n, 0)

\* ------------------------------------------------------------- variables
VARIABLES
    app,                     \* App.state: "Uninitialized" | "Running"; "Aborted" after a panic, "Exited" after close
    debug_build,             \* cfg!(debug_assertions): the shader source is read from disk at reload
    shader_file,             \* what fragment.wgsl on disk holds
    render_pipeline,         \* ReloadableGraphics.render_pipeline: identity of the active fractal pipeline
    pipelines_created,       \* render pipelines created for the fractal pass so far
    reloads,                 \* try_reload calls so far
    reload_result,           \* what the last reload reported
    factor,                  \* RenderTextureConfig.factor
    render_texture,          \* BlitGraphics.render_texture: its size
    is_cursor_grabbed,       \* PersistentGraphics.is_cursor_grabbed
    last_cursor_position,    \* Graphics.last_cursor_position
    window_cursor,           \* where the window system has the pointer (Window::set_cursor_position moves it)
    cursor_grab_calls,       \* Window::set_cursor_grab calls issued so far
    window_size,             \* window.inner_size()
    aspect_scale,            \* Parameters.aspect_scale
    time,                    \* Parameters.time
    num_iterations,          \* Parameters.num_iterations
    scene_index,             \* Parameters.scene_index
    held_keys,               \* HeldKeys flags
    keys_down,               \* the physical keys the keyboard holds down (where keyboard_input delivers the events)
    parameters_buffer,       \* PersistentGraphics.parameters_buffer: its size in bytes, 0 before it is created
    frame,                   \* the calls the most recent draw made, in order
    movement_per_second,     \* Camera fields
    orbit_angle_per_second,
    lock_yaw_mode,
    lock_pitch,
    position,
    pitch,
    yaw,
    time_factor              \* Timing.time_factor

reload_vars == <<render_pipeline, pipelines_created, reloads, reload_result>>

blit_vars == <<factor, render_texture>>

cursor_vars == <<is_cursor_grabbed, last_cursor_position, window_cursor, cursor_grab_calls>>

parameters_vars == <<aspect_scale, time, num_iterations, scene_index>>

camera_vars == <<movement_per_second, orbit_angle_per_second, lock_yaw_mode, lock_pitch, position, pitch, yaw>>

env_vars == <<debug_build, shader_file, window_size>>

frame_vars == <<parameters_buffer, frame>>

vars == <<app, env_vars, reload_vars, blit_vars, cursor_vars, parameters_vars, held_keys, keys_down,
          frame_vars, camera_vars, time_factor>>

\* ------------------------------------------------------ fixed-point grids
\* 1.0 on the rate grid (units of 0.00001)
RATE_ONE == 100000

\* 1.0 on the grid of the linear coefficient (tenths)
LINEAR_ONE == 10

\* pi/2 rad on the grid of 0.0001 rad
QUARTER_TURN == 15708

\* pixels per cursor unit
PIXEL_UNIT == 5236

\* Rad::full_turn(), in quarter turns
FULL_TURN == 4

\* rate * seconds as an angle: (rate * 0.0001 rad/s) * (seconds * pi s), in quarter turns
RateTimesSeconds(rate, seconds) == TruncDiv(2 * rate * seconds, RATE_ONE)

\* f32 range of exp(v / 10): a result below 2^-150 rounds to 0.0, one above f32::MAX to +inf
F32_LOG_MIN == -1040

F32_LOG_MAX == 888

\* log-domain codes of the f32 values 0.0, +inf and NaN
LOG_ZERO == -100000

LOG_INF == 100000

LOG_NAN == 200000

F32Finite(v) == v # LOG_INF /\ v # LOG_NAN

\* the log-domain value, rounded into the f32 range
F32Round(v) ==
    IF v <= F32_LOG_MIN THEN LOG_ZERO ELSE IF v >= F32_LOG_MAX THEN LOG_INF ELSE v

\* f32::exp(delta * 0.1), in the log domain
F32Exp(delta) == F32Round(delta)

\* a factor above 1/2 (exp(-0.7) = 0.497) cannot round the smallest subnormal to 0.0
SUBNORMAL_HOLD == 7

\* f32 product of two non-negative values, in the log domain; a product below
\* the f32 range is 0.0 unless the factor is too close to 1 to leave the last
\* subnormal
F32Mul(a, b) ==
    IF a = LOG_NAN \/ b = LOG_NAN THEN LOG_NAN
    ELSE IF (a = LOG_ZERO /\ b = LOG_INF) \/ (a = LOG_INF /\ b = LOG_ZERO) THEN LOG_NAN
    ELSE IF a = LOG_ZERO \/ b = LOG_ZERO THEN LOG_ZERO
    ELSE IF a = LOG_INF \/ b = LOG_INF THEN LOG_INF
    ELSE IF a + b <= F32_LOG_MIN /\ b > -SUBNORMAL_HOLD THEN a
    ELSE F32Round(a + b)

\* a finite speed in lattice steps per time unit: exp(v / 10) rounded down to
\* the lattice (exp(0.7) = 2.01, so the speed doubles every 7 tenths)
SpeedUnits(v) == IF v < 0 THEN 0 ELSE 2 ^ (v \div 7)

\* f32::clamp
Clamp(v, lo, hi) == IF v < lo THEN lo ELSE IF v > hi THEN hi ELSE v

\* ------------------------------------------------------------ utils.rs
\* delta is in scroll units, current, kickoff, min and max are on the rate grid
\* and linear is in tenths; the result is rounded towards zero onto the rate grid
limited_quadratric_delta_unclamped(current, delta, kickoff, min, max, linear) ==
    LET lqd_factor == IF current = 0 THEN kickoff ELSE Abs(current)
    IN  TruncDiv(linear * delta * lqd_factor, LINEAR_ONE)

limited_quadratric_delta(current, delta, kickoff, min, max, linear) ==
    LET lqd_factor == IF current = 0 THEN kickoff ELSE Clamp(Abs(current), min, max)
    IN  TruncDiv(linear * delta * lqd_factor, LINEAR_ONE)

\* ---------------------------------------------------------- held_keys.rs
HeldFlags ==
    {"MoveForward", "MoveBackward", "MoveRight", "MoveLeft", "MoveUp", "MoveDown",
     "PitchUp", "PitchDown", "YawRight", "YawLeft", "Shift", "Control"}

magnitude(keys, positive, negative) ==
    (IF positive \in keys THEN 1 ELSE 0) - (IF negative \in keys THEN 1 ELSE 0)

forward_magnitude(keys) == magnitude(keys, "MoveForward", "MoveBackward")

right_magnitude(keys) == magnitude(keys, "MoveRight", "MoveLeft")

up_magnitude(keys) == magnitude(keys, "MoveUp", "MoveDown")

pitch_magnitude(keys) == magnitude(keys, "PitchDown", "PitchUp")

yaw_magnitude(keys) == magnitude(keys, "YawRight", "YawLeft")

is_shift_pressed(keys) == "Shift" \in keys

\* a Control flag no scroll ever sees
is_control_pressed_never(keys) == FALSE

is_control_pressed(keys) == "Control" \in keys

\* ------------------------------------------------------------- camera.rs
LockYawModes == {"None", "Inwards", "Right", "Outwards", "Left"}

\* the camera as one value, so that its methods compose as in the source
Camera ==
    [movement_per_second |-> movement_per_second,
     orbit_angle_per_second |-> orbit_angle_per_second,
     lock_yaw_mode |-> lock_yaw_mode,
     lock_pitch |-> lock_pitch,
     position |-> position,
     pitch |-> pitch,
     yaw |-> yaw]

Camera_default ==
    [movement_per_second |-> 0,
     orbit_angle_per_second |-> 0,
     lock_yaw_mode |-> "None",
     lock_pitch |-> FALSE,
     position |-> [x |-> 0, y |-> 0, z |-> -1],
     pitch |-> 0,
     yaw |-> 0]

\* sine and cosine of an angle on the quarter-turn grid
Sin(a) == CASE a % 4 = 0 -> 0 [] a % 4 = 1 -> 1 [] a % 4 = 2 -> 0 [] a % 4 = 3 -> -1

Cos(a) == CASE a % 4 = 0 -> 1 [] a % 4 = 1 -> 0 [] a % 4 = 2 -> -1 [] a % 4 = 3 -> 0

\* Rad::atan2(a, b) = a.atan2(b), rounded to the nearest grid angle (an angle
\* halfway between two grid angles goes to the one nearer 0): the result lies in
\* [-pi, pi], and -pi is the rounding of every angle just above -pi
Atan2(a, b) ==
    IF Abs(a) > Abs(b) THEN Sign(a)
    ELSE IF b > 0 THEN 0
    ELSE IF b = 0 THEN 0
    ELSE IF Abs(a) = Abs(b) THEN Sign(a)
    ELSE IF a < 0 THEN -2 ELSE 2

VecAdd(u, v) == [x |-> u.x + v.x, y |-> u.y + v.y, z |-> u.z + v.z]

VecScale(u, k) == [x |-> u.x * k, y |-> u.y * k, z |-> u.z * k]

VecZero == [x |-> 0, y |-> 0, z |-> 0]

\* Vector2::magnitude
Magnitude2(a, b) == ISqrt(a * a + b * b)

\* 1 / sqrt(n) in units of 0.0001, for the squared length n of a vector of -1, 0, 1
InvSqrt(n) == CASE n = 1 -> 10000 [] n = 2 -> 7071 [] n = 3 -> 5774

\* a scaling without the normalisation: v * length
normalize_to_unnormalized(v, length) == VecScale(v, length)

\* InnerSpace::normalize_to: v * (length / |v|), each component rounded to the lattice
normalize_to(v, length) ==
    LET n == v.x * v.x + v.y * v.y + v.z * v.z
        comp(k) == TruncDiv(k * length * InvSqrt(n), 10000)
    IN  [x |-> comp(v.x), y |-> comp(v.y), z |-> comp(v.z)]

\* a forward vector that follows the view direction: rotation_matrix().z
forward_pitched(c) ==
    [x |-> Sin(c.yaw) * Cos(c.pitch), y |-> -Sin(c.pitch), z |-> Cos(c.yaw) * Cos(c.pitch)]

\* yaw_matrix().z.truncate()
forward(c) == [x |-> Sin(c.yaw), y |-> 0, z |-> Cos(c.yaw)]

\* yaw_matrix().x.truncate()
right(c) == [x |-> Cos(c.yaw), y |-> 0, z |-> -Sin(c.yaw)]

up(c) == [x |-> 0, y |-> 1, z |-> 0]

ROTATION_PER_SECOND == 50000

ROTATION_PER_PIXEL == 3

MAX_PITCH == 1

MIN_PITCH == -MAX_PITCH

update_speed(c, delta) ==
    [c EXCEPT !.movement_per_second = F32Mul(@, F32Exp(delta))]

ORBIT_KICKOFF == 2500

ORBIT_MIN == 10

ORBIT_MAX == 10000

ORBIT_LINEAR == 2

update_orbit_speed(c, delta) ==
    [c EXCEPT !.orbit_angle_per_second =
        @ + limited_quadratric_delta(@, delta, ORBIT_KICKOFF, ORBIT_MIN, ORBIT_MAX, ORBIT_LINEAR)]

reset_orbit_speed(c) == [c EXCEPT !.orbit_angle_per_second = 0]

toggle_lock_pitch(c) == [c EXCEPT !.lock_pitch = ~@]

\* a cycle that leaves out the mode Left
cycle_lock_yaw_mode_four(c, backwards) ==
    [c EXCEPT !.lock_yaw_mode =
        IF backwards
        THEN CASE @ = "None" -> "Outwards"
               [] @ = "Inwards" -> "None"
               [] @ = "Right" -> "Inwards"
               [] @ = "Outwards" -> "Right"
               [] @ = "Left" -> "Outwards"
        ELSE CASE @ = "None" -> "Inwards"
               [] @ = "Inwards" -> "Right"
               [] @ = "Right" -> "Outwards"
               [] @ = "Outwards" -> "None"
               [] @ = "Left" -> "None"]

cycle_lock_yaw_mode(c, backwards) ==
    [c EXCEPT !.lock_yaw_mode =
        IF backwards
        THEN CASE @ = "None" -> "Left"
               [] @ = "Inwards" -> "None"
               [] @ = "Right" -> "Inwards"
               [] @ = "Outwards" -> "Right"
               [] @ = "Left" -> "Outwards"
        ELSE CASE @ = "None" -> "Inwards"
               [] @ = "Inwards" -> "Right"
               [] @ = "Right" -> "Outwards"
               [] @ = "Outwards" -> "Left"
               [] @ = "Left" -> "None"]

update_pitch_unclamped(c, new_pitch) == [c EXCEPT !.pitch = new_pitch]

update_pitch(c, new_pitch) == [c EXCEPT !.pitch = Clamp(new_pitch, MIN_PITCH, MAX_PITCH)]

update_yaw(c, new_yaw) == [c EXCEPT !.yaw = TruncRem(new_yaw, FULL_TURN)]

add_pitch(c, delta) == update_pitch(c, c.pitch + delta)

add_yaw(c, delta) == update_yaw(c, c.yaw + delta)

do_movement(c, keys, seconds) ==
    LET movement ==
            VecAdd(VecAdd(VecScale(forward(c), forward_magnitude(keys)),
                          VecScale(right(c), right_magnitude(keys))),
                   VecScale(up(c), up_magnitude(keys)))
        moved ==
            IF movement # VecZero
            THEN [c EXCEPT !.position =
                     VecAdd(@, normalize_to(movement, SpeedUnits(c.movement_per_second) * seconds))]
            ELSE c
        rotation_magnitude == RateTimesSeconds(ROTATION_PER_SECOND, seconds)
    IN  add_yaw(add_pitch(moved, rotation_magnitude * pitch_magnitude(keys)),
                rotation_magnitude * yaw_magnitude(keys))

\* an orbit about the x axis: Matrix3::from_angle_x(angle) * position
do_orbit_about_x(c, seconds) ==
    LET angle == RateTimesSeconds(c.orbit_angle_per_second, seconds)
    IN  [c EXCEPT !.position =
            [x |-> @.x,
             y |-> Cos(angle) * @.y + (-Sin(angle)) * @.z,
             z |-> Sin(angle) * @.y + Cos(angle) * @.z]]

\* Matrix3::from_angle_y(angle) * position
do_orbit(c, seconds) ==
    LET angle == RateTimesSeconds(c.orbit_angle_per_second, seconds)
    IN  [c EXCEPT !.position =
            [x |-> Cos(angle) * @.x + Sin(angle) * @.z,
             y |-> @.y,
             z |-> (-Sin(angle)) * @.x + Cos(angle) * @.z]]

\* a yaw lock that turns the current yaw by the locked angle instead of
\* replacing it
do_lock_yaw_relative(c) ==
    IF c.lock_yaw_mode = "None" THEN c
    ELSE [c EXCEPT !.yaw = TruncRem(@ + Atan2(c.position.x, c.position.z), FULL_TURN)]

\* a yaw lock with the offsets of Inwards and Outwards exchanged
do_lock_yaw_swapped(c) ==
    IF c.lock_yaw_mode = "None" THEN c
    ELSE LET offset ==
                 CASE c.lock_yaw_mode = "Inwards" -> 0
                   [] c.lock_yaw_mode = "Right" -> -(FULL_TURN \div 4)
                   [] c.lock_yaw_mode = "Outwards" -> -(FULL_TURN \div 2)
                   [] c.lock_yaw_mode = "Left" -> FULL_TURN \div 4
         IN  [c EXCEPT !.yaw = Atan2(c.position.x, c.position.z) + offset]

do_lock_yaw(c) ==
    IF c.lock_yaw_mode = "None" THEN c
    ELSE LET offset ==
                 CASE c.lock_yaw_mode = "Inwards" -> -(FULL_TURN \div 2)
                   [] c.lock_yaw_mode = "Right" -> -(FULL_TURN \div 4)
                   [] c.lock_yaw_mode = "Outwards" -> 0
                   [] c.lock_yaw_mode = "Left" -> FULL_TURN \div 4
         IN  [c EXCEPT !.yaw = Atan2(c.position.x, c.position.z) + offset]

do_lock_pitch(c) ==
    IF ~c.lock_pitch THEN c
    ELSE LET radius == Magnitude2(c.position.x, c.position.z)
         IN  [c EXCEPT !.pitch = Atan2(c.position.y, radius)]

do_lock_rotation(c) == do_lock_pitch(do_lock_yaw(c))

update(c, keys, seconds) == do_lock_rotation(do_orbit(do_movement(c, keys, seconds), seconds))

\* a cursor delta of so many cursor units, as an angle
PixelsToAngle(pixels) == TruncDiv(ROTATION_PER_PIXEL * PIXEL_UNIT * pixels, QUARTER_TURN)

\* the rotation with the two axes of the cursor exchanged
rotate_from_cursor_movement_swapped(c, yaw_pixels, pitch_pixels) ==
    add_yaw(add_pitch(c, PixelsToAngle(yaw_pixels)), PixelsToAngle(pitch_pixels))

rotate_from_cursor_movement(c, yaw_pixels, pitch_pixels) ==
    add_yaw(add_pitch(c, PixelsToAngle(pitch_pixels)), PixelsToAngle(yaw_pixels))

SetCamera(c) ==
    /\ movement_per_second' = c.movement_per_second
    /\ orbit_angle_per_second' = c.orbit_angle_per_second
    /\ lock_yaw_mode' = c.lock_yaw_mode
    /\ lock_pitch' = c.lock_pitch
    /\ position' = c.position
    /\ pitch' = c.pitch
    /\ yaw' = c.yaw

InBox(p) == Abs(p.x) <= MaxCoord /\ Abs(p.y) <= MaxCoord /\ Abs(p.z) <= MaxCoord

\* --------------------------------------------------------- parameters.rs
NUM_SCENES == 19

\* a u32 is kept as its two 16-bit halves <<high, low>>, which hold every value
\* up to u32::MAX = 2^32 - 1
U16 == 65536

U32(v) == <<v \div U16, v % U16>>

U32_MAX == <<U16 - 1, U16 - 1>>

\* the value of a u32 below 2^31
U32Value(u) == u[1] * U16 + u[2]

U32Leq(a, b) == a[1] < b[1] \/ (a[1] = b[1] /\ a[2] <= b[2])

\* an addition that wraps around modulo 2^32
U32_wrapping_add_signed(u, delta) ==
    LET low == u[2] + delta
    IN  <<(u[1] + (low \div U16)) % U16, low % U16>>

\* u32::saturating_add_signed on the halves, for a delta of magnitude below
\* 2^31 - 2^16: the sum is clamped to 0 and to u32::MAX
U32_saturating_add_signed(u, delta) ==
    LET low == u[2] + delta
        high == u[1] + (low \div U16)
    IN  IF high < 0 THEN U32(0)
        ELSE IF high >= U16 THEN U32_MAX
        ELSE <<high, low % U16>>

\* u32::saturating_add_signed of a value the guards keep below 2^31
saturating_add_signed(v, delta) == U32Value(U32_saturating_add_signed(U32(v), delta))

\* an aspect correction that normalises by the longer axis
update_aspect_by_max(width, height) ==
    LET max == Max2(width, height)
    IN  <<F32Div(width, max), F32Div(height, max)>>

update_aspect(width, height) ==
    LET min == Min2(width, height)
    IN  <<F32Div(width, min), F32Div(height, min)>>

\* an iteration count that wraps around at both ends
update_num_iterations_wrapping(n, delta) == U32_wrapping_add_signed(n, delta)

update_num_iterations(n, delta) == U32_saturating_add_signed(n, delta)

\* the counts within MaxIterations of either end of the u32 range
IterationsInBound(n) ==
    \/ n[1] = 0 /\ n[2] <= MaxIterations
    \/ n[1] = U16 - 1 /\ n[2] >= U16 - 1 - MaxIterations

\* a scene index wrapped with the % of the language, whose sign is the dividend's
update_scene_index_rem(index, delta) == TruncRem(index + delta, NUM_SCENES)

\* i32::rem_euclid: the non-negative remainder
update_scene_index(index, delta) == (index + delta) % NUM_SCENES

\* the fields of struct Parameters in declaration order, with the size and the
\* alignment of their types in bytes (f32 and u32: 4 and 4, u8: 1 and 1)
ParametersFields_unpadded ==
    << [name |-> "camera_matrix",  size |-> 64, align |-> 4],
       [name |-> "aspect_scale",   size |-> 8,  align |-> 4],
       [name |-> "time",           size |-> 4,  align |-> 4],
       [name |-> "num_iterations", size |-> 4,  align |-> 4],
       [name |-> "scene_index",    size |-> 4,  align |-> 4] >>

ParametersFields ==
    << [name |-> "camera_matrix",  size |-> 64, align |-> 4],
       [name |-> "aspect_scale",   size |-> 8,  align |-> 4],
       [name |-> "time",           size |-> 4,  align |-> 4],
       [name |-> "num_iterations", size |-> 4,  align |-> 4],
       [name |-> "scene_index",    size |-> 4,  align |-> 4],
       [name |-> "padding",        size |-> 12, align |-> 1] >>

\* #[repr(C)]: every field starts at the next multiple of its alignment after
\* the field before it, and the size of the struct is rounded up to the
\* largest alignment
RoundUp(n, align) == ((n + align - 1) \div align) * align

RECURSIVE offset_of(_, _)
offset_of(fields, i) ==
    IF i = 1 THEN 0
    ELSE RoundUp(offset_of(fields, i - 1) + fields[i - 1].size, fields[i].align)

struct_align(fields) ==
    CHOOSE a \in {fields[i].align : i \in DOMAIN fields} :
        \A i \in DOMAIN fields : fields[i].align <= a

size_of(fields) ==
    RoundUp(offset_of(fields, Len(fields)) + fields[Len(fields)].size, struct_align(fields))

size_of_Parameters == size_of(ParametersFields)

\* ------------------------------------------------ render_texture_config.rs
DEFAULT_FACTOR == 12

\* a target that keeps the resolution it was first created with
render_texture_size_stale(f) == <<160 * DEFAULT_FACTOR, 90 * DEFAULT_FACTOR>>

render_texture_size(f) == <<160 * f, 90 * f>>

\* a resolution change without the floor
update_render_texture_size_unfloored(f, delta) == saturating_add_signed(f, delta)

update_render_texture_size(f, delta) == Max2(1, saturating_add_signed(f, delta))

\* ------------------------------------------------------------- timing.rs
\* the smoothing update_time_factor applies: limited_quadratric_delta with the
\* constants of the orbit speed
time_factor_delta(current, delta) ==
    limited_quadratric_delta(current, delta, ORBIT_KICKOFF, ORBIT_MIN, ORBIT_MAX, ORBIT_LINEAR)

update_time_factor(tf, delta) == tf + time_factor_delta(tf, delta)

stop_time == 0

\* Timing::update: the time handed to the parameters
Timing_update(tf, dt) == tf * dt

\* ------------------------------------------- reloadable_graphics.rs, utils.rs
ShaderContents == {"valid", "unreadable", "invalid_wgsl", "invalid_pipeline"}

\* the fragment shader source ReloadableGraphics::init compiles: the file on
\* disk in a debug build, the source embedded at build time otherwise
fragment_shader_source == IF debug_build THEN shader_file ELSE "valid"

\* handle_device_errors: Err if the closure raised an error of the filtered
\* kind while the error scope was pushed, Ok otherwise
handle_device_errors(raised) == IF raised THEN "Err" ELSE "Ok"

\* ReloadableGraphics::init: "Ok" with a new pipeline, "Err", or "Panic" when a
\* validation error is raised outside every error scope (wgpu hands it to the
\* uncaptured-error handler, which panics)
ReloadableGraphics_init ==
    IF fragment_shader_source = "unreadable" THEN "Err"
    ELSE IF handle_device_errors(fragment_shader_source = "invalid_wgsl") = "Err" THEN "Err"
    ELSE IF fragment_shader_source = "invalid_pipeline" THEN "Panic"
    ELSE "Ok"

\* ------------------------------------------------------------ graphics.rs
\* a reload that installs whatever init left behind before looking at its result
reload_eager(outcome) ==
    /\ render_pipeline' = pipelines_created + 1
    /\ pipelines_created' = pipelines_created + 1

\* Graphics::reload: the assignment happens only after init returned Ok
reload(outcome) ==
    /\ render_pipeline' = IF outcome = "Ok" THEN pipelines_created + 1 ELSE render_pipeline
    /\ pipelines_created' = IF outcome = "Ok" THEN pipelines_created + 1 ELSE pipelines_created

try_reload ==
    LET outcome == ReloadableGraphics_init
    IN  /\ reloads < MaxReloads
        /\ reload(outcome)
        /\ reloads' = reloads + 1
        /\ reload_result' = CASE outcome = "Ok" -> "ok"
                              [] outcome = "Err" -> "failed"
                              [] outcome = "Panic" -> "panicked"
        /\ app' = IF outcome = "Panic" THEN "Aborted" ELSE app

\* PersistentGraphics::update_parameters_buffer: the whole block, cast to
\* bytes, written at offset 0
update_parameters_buffer == <<"queue.write_buffer", 0, size_of_Parameters>>

\* an update that uploads the block before the camera wrote its matrix into it
update_calls_upload_first ==
    << <<"timing.update", 0, 0>>,
       update_parameters_buffer,
       <<"camera.update", 0, 0>>,
       <<"parameters.update_camera", 0, 0>> >>

\* InitializedApp::update, as the calls it makes
update_calls ==
    << <<"timing.update", 0, 0>>,
       <<"camera.update", 0, 0>>,
       <<"parameters.update_camera", 0, 0>>,
       update_parameters_buffer >>

\* the pipeline of the blit pass, created once by PersistentGraphics::init
blit_render_pipeline == "blit_render_pipeline"

\* a render that goes on to submit and present after the frame was refused
render_ignoring_failure(frame_ok) ==
    << <<"create_command_encoder", 0, 0>>,
       <<"do_render_texture_pass", render_pipeline, 0>>,
       <<"get_current_texture", IF frame_ok THEN 1 ELSE 0, 0>>,
       <<"do_blit_pass", blit_render_pipeline, 0>>,
       <<"queue.submit", 0, 0>>,
       <<"pre_present_notify", 0, 0>>,
       <<"present", 0, 0>>,
       <<"request_redraw", 0, 0>> >>

\* a render whose offscreen pass keeps the pipeline the session was created with
render_initial_pipeline(frame_ok) ==
    IF frame_ok
    THEN << <<"create_command_encoder", 0, 0>>,
            <<"do_render_texture_pass", 1, 0>>,
            <<"get_current_texture", 1, 0>>,
            <<"do_blit_pass", blit_render_pipeline, 0>>,
            <<"queue.submit", 0, 0>>,
            <<"pre_present_notify", 0, 0>>,
            <<"present", 0, 0>>,
            <<"request_redraw", 0, 0>> >>
    ELSE << <<"create_command_encoder", 0, 0>>,
            <<"do_render_texture_pass", 1, 0>>,
            <<"get_current_texture", 0, 0>> >>

\* Graphics::render, as the calls it makes: the ? after get_current_texture
\* returns before the blit pass
render(frame_ok) ==
    IF frame_ok
    THEN << <<"create_command_encoder", 0, 0>>,
            <<"do_render_texture_pass", render_pipeline, 0>>,
            <<"get_current_texture", 1, 0>>,
            <<"do_blit_pass", blit_render_pipeline, 0>>,
            <<"queue.submit", 0, 0>>,
            <<"pre_present_notify", 0, 0>>,
            <<"present", 0, 0>>,
            <<"request_redraw", 0, 0>> >>
    ELSE << <<"create_command_encoder", 0, 0>>,
            <<"do_render_texture_pass", render_pipeline, 0>>,
            <<"get_current_texture", 0, 0>> >>

\* a grab without the early return: the platform call is issued every time
grab_cursor_every_time(platform_ok) ==
    /\ cursor_grab_calls < MaxGrabCalls
    /\ cursor_grab_calls' = cursor_grab_calls + 1
    /\ is_cursor_grabbed' = IF platform_ok THEN TRUE ELSE is_cursor_grabbed

\* PersistentGraphics::grab_cursor / ungrab_cursor: a call that returns early
\* issues no platform call; a refused call returns before the flag is written
grab_cursor(platform_ok) ==
    IF is_cursor_grabbed
    THEN UNCHANGED <<is_cursor_grabbed, cursor_grab_calls>>
    ELSE /\ cursor_grab_calls < MaxGrabCalls
         /\ cursor_grab_calls' = cursor_grab_calls + 1
         /\ is_cursor_grabbed' = platform_ok

ungrab_cursor(platform_ok) ==
    IF ~is_cursor_grabbed
    THEN UNCHANGED <<is_cursor_grabbed, cursor_grab_calls>>
    ELSE /\ cursor_grab_calls < MaxGrabCalls
         /\ cursor_grab_calls' = cursor_grab_calls + 1
         /\ is_cursor_grabbed' = ~platform_ok

\* ----------------------------------------------- initialized_app.rs, app.rs
None == <<>>


\* a binding table in which r, the reload key, is bound to a held flag as well
held_key_of_overlapping(key) ==
    CASE key = "w" -> "MoveForward"
      [] key = "r" -> "MoveUp"
      [] key = "s" -> "MoveBackward"
      [] key = "a" -> "MoveLeft"
      [] key = "d" -> "MoveRight"
      [] key = "q" -> "MoveDown"
      [] key = "e" -> "MoveUp"
      [] key = "ArrowDown" -> "PitchDown"
      [] key = "ArrowUp" -> "PitchUp"
      [] key = "ArrowRight" -> "YawRight"
      [] key = "ArrowLeft" -> "YawLeft"
      [] key = "Shift" -> "Shift"
      [] key = "Control" -> "Control"
      [] OTHER -> "none"

\* handle_held_keys: the flag a key is bound to, "none" for any other key
held_key_of(key) ==
    CASE key = "w" -> "MoveForward"
      [] key = "s" -> "MoveBackward"
      [] key = "a" -> "MoveLeft"
      [] key = "d" -> "MoveRight"
      [] key = "q" -> "MoveDown"
      [] key = "e" -> "MoveUp"
      [] key = "ArrowDown" -> "PitchDown"
      [] key = "ArrowUp" -> "PitchUp"
      [] key = "ArrowRight" -> "YawRight"
      [] key = "ArrowLeft" -> "YawLeft"
      [] key = "Shift" -> "Shift"
      [] key = "Control" -> "Control"
      [] OTHER -> "none"

\* HeldKeys::set
handle_held_keys(keys, key, pressed) ==
    IF held_key_of(key) = "none" THEN keys
    ELSE IF pressed THEN keys \cup {held_key_of(key)}
    ELSE keys \ {held_key_of(key)}

\* handle_trigger_keys: the first binding that matches the pressed key acts
handle_trigger_keys(key, pressed, platform_ok) ==
    IF ~pressed
    THEN UNCHANGED <<app, reload_vars, blit_vars, cursor_vars, parameters_vars, frame_vars, camera_vars, time_factor>>
    ELSE CASE key = "Escape" ->
                /\ ungrab_cursor(platform_ok)
                /\ UNCHANGED <<app, reload_vars, blit_vars, last_cursor_position, window_cursor, parameters_vars, frame_vars,
                               camera_vars, time_factor>>
           [] key \in {"+", "-"} ->
                /\ num_iterations' = update_num_iterations(num_iterations, IF key = "+" THEN 1 ELSE -1)
                /\ IterationsInBound(num_iterations')
                /\ UNCHANGED <<app, reload_vars, blit_vars, cursor_vars, aspect_scale,
                               time, frame_vars, scene_index, camera_vars, time_factor>>
           [] key \in {"n", "b"} ->
                /\ scene_index' = update_scene_index(scene_index, IF key = "n" THEN 1 ELSE -1)
                /\ UNCHANGED <<app, reload_vars, blit_vars, cursor_vars, aspect_scale,
                               time, frame_vars, num_iterations, camera_vars, time_factor>>
           [] key = "o" ->
                /\ SetCamera(reset_orbit_speed(Camera))
                /\ UNCHANGED <<app, reload_vars, blit_vars, cursor_vars, parameters_vars, frame_vars, time_factor>>
           [] key = "p" ->
                /\ SetCamera(toggle_lock_pitch(Camera))
                /\ UNCHANGED <<app, reload_vars, blit_vars, cursor_vars, parameters_vars, frame_vars, time_factor>>
           [] key \in {"l", "L"} ->
                /\ SetCamera(cycle_lock_yaw_mode(Camera, key = "L"))
                /\ UNCHANGED <<app, reload_vars, blit_vars, cursor_vars, parameters_vars, frame_vars, time_factor>>
           [] key = "t" ->
                /\ time_factor' = stop_time
                /\ UNCHANGED <<app, reload_vars, blit_vars, cursor_vars, parameters_vars, frame_vars, camera_vars>>
           [] key = "r" ->
                /\ try_reload
                /\ UNCHANGED <<blit_vars, cursor_vars, parameters_vars, frame_vars, camera_vars, time_factor>>
           [] key \in {">", "<"} ->
                /\ factor' = update_render_texture_size(factor, IF key = ">" THEN 1 ELSE -1)
                /\ factor' <= MaxFactor
                /\ render_texture' = render_texture_size(factor')
                /\ UNCHANGED <<app, reload_vars, cursor_vars, parameters_vars, frame_vars, camera_vars, time_factor>>
           [] OTHER ->
                UNCHANGED <<app, reload_vars, blit_vars, cursor_vars, parameters_vars, frame_vars, camera_vars,
                            time_factor>>

\* InitializedApp::handle_key, for a KeyEvent with this logical key
handle_key_event(key, pressed, platform_ok) ==
    /\ app = "Running"
    /\ held_keys' = handle_held_keys(held_keys, key, pressed)
    /\ handle_trigger_keys(key, pressed, platform_ok)
    /\ UNCHANGED env_vars

\* WindowEvent::KeyboardInput, the KeyEvent given by its logical key
handle_key(key, pressed, platform_ok) ==
    /\ handle_key_event(key, pressed, platform_ok)
    /\ UNCHANGED keys_down

\* the + key held down: the keyboard repeats the press event, which
\* handle_trigger_keys takes like any other press (it does not look at
\* KeyEvent::repeat), one increment each, until the count is within
\* MaxIterations of u32::MAX
hold_plus ==
    /\ app = "Running"
    /\ num_iterations[1] = 0
    /\ \E low \in (U16 - 1 - MaxIterations)..(U16 - 1) : num_iterations' = <<U16 - 1, low>>
    /\ UNCHANGED <<app, env_vars, reload_vars, blit_vars, cursor_vars, aspect_scale, time, scene_index,
                   frame_vars, held_keys, keys_down, camera_vars, time_factor>>

\* KeyEvent::logical_key of a key, named here by its unshifted logical key: the
\* platform applies the Shift level of the layout, so a letter arrives as its
\* capital while Shift is down (the l / L bindings of handle_trigger_keys rely
\* on it); named keys have one level
logical_key(physical, shifted) ==
    IF ~shifted THEN physical
    ELSE CASE physical = "w" -> "W"
           [] physical = "s" -> "S"
           [] physical = "a" -> "A"
           [] physical = "d" -> "D"
           [] physical = "q" -> "Q"
           [] physical = "e" -> "E"
           [] physical = "x" -> "X"
           [] OTHER -> physical

\* WindowEvent::KeyboardInput, the KeyEvent given by the key of the keyboard
\* that went down or up: a key goes up only after it went down
keyboard_input(physical, pressed) ==
    /\ pressed \/ physical \in keys_down
    /\ keys_down' = IF pressed THEN keys_down \cup {physical} ELSE keys_down \ {physical}
    /\ Cardinality(keys_down') <= MaxKeysDown
    /\ handle_key_event(logical_key(physical, "Shift" \in keys_down), pressed, TRUE)

\* WindowEvent::RedrawRequested: update, then render; a frame that cannot be
\* acquired is an error that window_event unwraps
draw(dt, frame_ok) ==
    LET camera == update(Camera, held_keys, dt)
    IN  /\ app = "Running"
        /\ F32Finite(movement_per_second)
        /\ InBox(camera.position)
        /\ time' = Timing_update(time_factor, dt)
        /\ SetCamera(camera)
        /\ frame' = update_calls \o render(frame_ok)
        /\ app' = IF frame_ok THEN app ELSE "Aborted"
        /\ UNCHANGED <<env_vars, reload_vars, blit_vars, cursor_vars, aspect_scale, num_iterations,
                       scene_index, held_keys, keys_down, parameters_buffer, time_factor>>

\* WindowEvent::Resized: Surface::configure panics on a zero-sized surface
resize(width, height) ==
    /\ app = "Running"
    /\ window_size' = <<width, height>>
    /\ IF width = 0 \/ height = 0
       THEN /\ app' = "Aborted"
            /\ UNCHANGED aspect_scale
       ELSE /\ aspect_scale' = update_aspect(width, height)
            /\ UNCHANGED app
    /\ UNCHANGED <<debug_build, shader_file, reload_vars, blit_vars, cursor_vars, time, frame_vars,
                   num_iterations, scene_index, held_keys, keys_down, camera_vars, time_factor>>

\* WindowEvent::MouseInput
handle_mouse(button, pressed, platform_ok) ==
    /\ app = "Running"
    /\ IF button = "Left" /\ pressed
       THEN grab_cursor(platform_ok)
       ELSE UNCHANGED <<is_cursor_grabbed, cursor_grab_calls>>
    /\ UNCHANGED <<app, env_vars, reload_vars, blit_vars, last_cursor_position, window_cursor, parameters_vars, frame_vars,
                   held_keys, keys_down, camera_vars, time_factor>>

\* WindowEvent::Focused
handle_focused(focused, platform_ok) ==
    /\ app = "Running"
    /\ IF ~focused
       THEN ungrab_cursor(platform_ok)
       ELSE UNCHANGED <<is_cursor_grabbed, cursor_grab_calls>>
    /\ UNCHANGED <<app, env_vars, reload_vars, blit_vars, last_cursor_position, window_cursor, parameters_vars, frame_vars,
                   held_keys, keys_down, camera_vars, time_factor>>

LINE_FACTOR_INV == 2

\* WindowEvent::MouseWheel: kind is "LineDelta" or "PixelDelta"
handle_mouse_wheel(kind, dx, dy) ==
    LET x0 == IF kind = "LineDelta" THEN TruncDiv(dx, LINE_FACTOR_INV) ELSE dx
        y0 == IF kind = "LineDelta" THEN TruncDiv(dy, LINE_FACTOR_INV) ELSE dy
        x == IF is_shift_pressed(held_keys) THEN x0 + y0 ELSE x0
        y == IF is_shift_pressed(held_keys) THEN 0 ELSE y0
    IN  /\ app = "Running"
        /\ IF is_control_pressed(held_keys)
           THEN /\ time_factor' = update_time_factor(time_factor, y)
                /\ Abs(time_factor') <= MaxTimeFactor
                /\ UNCHANGED camera_vars
           ELSE /\ SetCamera(update_speed(update_orbit_speed(Camera, x), y))
                /\ Abs(orbit_angle_per_second') <= MaxOrbitRate
                /\ UNCHANGED time_factor
        /\ UNCHANGED <<app, env_vars, reload_vars, blit_vars, cursor_vars, parameters_vars, frame_vars, held_keys, keys_down>>

\* a cursor handler that looks around whenever an anchor is known, grabbed or not
handle_cursor_movement_ungrabbed(cursor, platform_ok) ==
    /\ app = "Running"
    /\ IF last_cursor_position # None
       THEN /\ UNCHANGED last_cursor_position
            /\ IF platform_ok
               THEN /\ window_cursor' = last_cursor_position
                    /\ SetCamera(rotate_from_cursor_movement(Camera,
                                     cursor[1] - last_cursor_position[1],
                                     cursor[2] - last_cursor_position[2]))
                    /\ UNCHANGED app
               ELSE /\ window_cursor' = cursor
                    /\ app' = "Aborted"
                    /\ UNCHANGED camera_vars
       ELSE /\ last_cursor_position' = cursor
            /\ window_cursor' = cursor
            /\ UNCHANGED <<app, camera_vars>>
    /\ UNCHANGED <<env_vars, reload_vars, blit_vars, is_cursor_grabbed, cursor_grab_calls, parameters_vars, frame_vars, held_keys, keys_down,
                   time_factor>>

\* WindowEvent::CursorMoved: Graphics::move_cursor, then the rotation
handle_cursor_movement(cursor, platform_ok) ==
    /\ app = "Running"
    /\ IF is_cursor_grabbed /\ last_cursor_position # None
       THEN /\ UNCHANGED last_cursor_position
            /\ IF platform_ok
               THEN /\ window_cursor' = last_cursor_position
                    /\ SetCamera(rotate_from_cursor_movement(Camera,
                                     cursor[1] - last_cursor_position[1],
                                     cursor[2] - last_cursor_position[2]))
                    /\ UNCHANGED app
               ELSE /\ window_cursor' = cursor
                    /\ app' = "Aborted"
                    /\ UNCHANGED camera_vars
       ELSE /\ last_cursor_position' = cursor
            /\ window_cursor' = cursor
            /\ UNCHANGED <<app, camera_vars>>
    /\ UNCHANGED <<env_vars, reload_vars, blit_vars, is_cursor_grabbed, cursor_grab_calls, parameters_vars, frame_vars, held_keys, keys_down,
                   time_factor>>

\* ApplicationHandler::resumed: State::init, unwrapped.  Delivered once, at
\* start, on the desktop platforms the viewer runs on.
resumed(width, height, init_ok) ==
    /\ app = "Uninitialized"
    /\ window_size' = <<width, height>>
    /\ IF init_ok /\ ReloadableGraphics_init = "Ok"
       THEN /\ app' = "Running"
            /\ render_pipeline' = pipelines_created + 1
            /\ pipelines_created' = pipelines_created + 1
            /\ aspect_scale' = update_aspect(width, height)
       ELSE /\ app' = "Aborted"
            /\ UNCHANGED <<render_pipeline, pipelines_created, aspect_scale>>
    /\ factor' = DEFAULT_FACTOR
    /\ render_texture' = render_texture_size(DEFAULT_FACTOR)
    /\ is_cursor_grabbed' = FALSE
    /\ last_cursor_position' = None
    /\ parameters_buffer' = IF init_ok THEN size_of_Parameters ELSE 0
    /\ held_keys' = {}
    /\ SetCamera(Camera_default)
    /\ time_factor' = RATE_ONE
    /\ UNCHANGED <<debug_build, shader_file, reloads, reload_result, time,
                   num_iterations, scene_index, window_cursor, cursor_grab_calls, keys_down, frame>>

\* the window events handle_window_event hands to the session
SessionEvents ==
    {"RedrawRequested", "Resized", "KeyboardInput", "CursorMoved", "MouseInput", "MouseWheel", "Focused"}

\* a dispatch that makes a default session for an event that finds none
event_before_initialization_lazy(event) ==
    /\ app = "Uninitialized"
    /\ event \in SessionEvents
    /\ app' = "Running"
    /\ UNCHANGED <<env_vars, reload_vars, blit_vars, cursor_vars, parameters_vars, frame_vars, held_keys, keys_down,
                   camera_vars, time_factor>>

\* App::state_mut on an event that arrives before resumed: the session is
\* None, and the unwrap of the missing session panics
event_before_initialization(event) ==
    /\ app = "Uninitialized"
    /\ event \in SessionEvents
    /\ app' = "Aborted"
    /\ UNCHANGED <<env_vars, reload_vars, blit_vars, cursor_vars, parameters_vars, frame_vars, held_keys, keys_down,
                   camera_vars, time_factor>>

\* WindowEvent::CloseRequested
close_requested ==
    /\ app \in {"Uninitialized", "Running"}
    /\ app' = "Exited"
    /\ UNCHANGED <<env_vars, reload_vars, blit_vars, cursor_vars, parameters_vars, frame_vars, held_keys, keys_down,
                   camera_vars, time_factor>>

\* the environment: fragment.wgsl is edited on disk
edit_shader(content) ==
    /\ shader_file' = content
    /\ shader_file' # shader_file
    /\ UNCHANGED <<app, debug_build, window_size, reload_vars, blit_vars, cursor_vars,
                   parameters_vars, frame_vars, held_keys, keys_down, camera_vars, time_factor>>

\* ------------------------------------------------------------------ Init
\* App::default(): no session yet; the session fields hold the values their
\* constructors give them
Init ==
    /\ app = "Uninitialized"
    /\ debug_build \in BOOLEAN
    /\ shader_file = "valid"
    /\ render_pipeline = 0
    /\ pipelines_created = 0
    /\ reloads = 0
    /\ reload_result = "none"
    /\ factor = DEFAULT_FACTOR
    /\ render_texture = render_texture_size(DEFAULT_FACTOR)
    /\ is_cursor_grabbed = FALSE
    /\ last_cursor_position = None
    /\ window_cursor = None
    /\ cursor_grab_calls = 0
    /\ window_size = <<0, 0>>
    /\ aspect_scale = <<<<0, 1>>, <<0, 1>>>>
    /\ time = 0
    /\ num_iterations = U32(0)
    /\ scene_index = 0
    /\ held_keys = {}
    /\ keys_down = {}
    /\ parameters_buffer = 0
    /\ frame = <<>>
    /\ movement_per_second = Camera_default.movement_per_second
    /\ orbit_angle_per_second = Camera_default.orbit_angle_per_second
    /\ lock_yaw_mode = Camera_default.lock_yaw_mode
    /\ lock_pitch = Camera_default.lock_pitch
    /\ position = Camera_default.position
    /\ pitch = Camera_default.pitch
    /\ yaw = Camera_default.yaw
    /\ time_factor = RATE_ONE

\* ------------------------------------------- the session and its reloads
SessionKeys == {"r", "Escape", "x"}

Next ==
    \/ \E init_ok \in BOOLEAN : resumed(1920, 1080, init_ok)
    \/ close_requested
    \/ \E content \in ShaderContents : edit_shader(content)
    \/ \E key \in SessionKeys, pressed \in BOOLEAN, platform_ok \in BOOLEAN :
           handle_key(key, pressed, platform_ok) /\ Cardinality(held_keys') <= MaxHeld
    \/ \E dt \in 0..MaxDt, frame_ok \in BOOLEAN : draw(dt, frame_ok)
    \/ \E button \in {"Left", "Right"}, pressed \in BOOLEAN, platform_ok \in BOOLEAN :
           handle_mouse(button, pressed, platform_ok)
    \/ \E focused \in BOOLEAN, platform_ok \in BOOLEAN : handle_focused(focused, platform_ok)

Spec == Init /\ [][Next]_vars

\* a step that is a call of try_reload
ReloadStep == reloads' = reloads + 1

\* C1: reload is all-or-nothing.  A reload that reports failure leaves the
\* active fractal pipeline the very one it was, and leaves the camera, the
\* parameters, the resolution factor and the cursor grab untouched; the active
\* pipeline of a running session is replaced only by a reload that reports
\* success.
C1_ReloadAllOrNothing ==
    [][/\ (ReloadStep /\ reload_result' = "failed") =>
              /\ render_pipeline' = render_pipeline
              /\ UNCHANGED <<camera_vars, parameters_vars, blit_vars, cursor_vars>>
       /\ (app = "Running" /\ render_pipeline' # render_pipeline) =>
              (ReloadStep /\ reload_result' = "ok")]_vars

\* C1 witness: a reload failed after an earlier one had succeeded, and the
\* pipeline of the successful one is still the active one
C1_Witness ==
    /\ app = "Running"
    /\ reload_result = "failed"
    /\ reloads >= 2
    /\ render_pipeline = 2
    /\ pipelines_created = 2

\* C2: every error raised while recompiling the fractal pipeline on reload, in
\* shader-module creation and in render-pipeline creation alike, is captured
\* and reported as a failure; the process is not aborted and the session keeps
\* drawing frames.
C2_ReloadErrorsCaptured ==
    [][(ReloadStep /\ fragment_shader_source \in {"invalid_wgsl", "invalid_pipeline"}) =>
           (reload_result' = "failed" /\ app' = "Running")]_vars

\* ------------------------------ the parameters and the offscreen resolution
WindowSizes == {0, 1, 3, 1080, 1920}

ParameterKeys == {"n", "b", "+", "-", ">", "<"}

InitDebug == Init /\ debug_build

NextParams ==
    \/ \E width, height \in WindowSizes \ {0} : resumed(width, height, TRUE)
    \/ \E width, height \in WindowSizes : resize(width, height)
    \/ \E key \in ParameterKeys, pressed \in BOOLEAN : handle_key(key, pressed, TRUE) /\ Cardinality(held_keys') <= MaxHeld

SpecParams == InitDebug /\ [][NextParams]_vars

\* C5: the offscreen resolution factor is at least 1 in every reachable state,
\* and a decrease applied at factor 1 leaves it at 1 (no step takes the factor
\* from 1 to anything but 1 or 2).
C5_FactorAtLeastOne ==
    [](factor >= 1) /\ [][factor = 1 => factor' \in {1, 2}]_vars

\* C5 witness: enough decreases from the default 12 have brought the factor to 1
C5_Witness == app = "Running" /\ factor = 1 /\ render_texture = <<160, 90>>

\* C7: the scene index stays in 0..18 and wraps modulo the scene count: +1 at 18
\* yields 0, -1 at 0 yields 18, and +1 followed by -1 restores the index.
C7_SceneIndexWraps ==
    /\ scene_index \in 0..18
    /\ (scene_index = 18 => update_scene_index(scene_index, 1) = 0)
    /\ (scene_index = 0 => update_scene_index(scene_index, -1) = 18)
    /\ update_scene_index(update_scene_index(scene_index, 1), -1) = scene_index
    /\ update_scene_index(update_scene_index(scene_index, -1), 1) = scene_index

\* C7 witness: the index has wrapped to the last scene
C7_Witness == app = "Running" /\ scene_index = 18

\* C8: in a running session aspect_scale is (width / min, height / min) of the
\* current window size: the shorter axis has exactly 1, the other at least 1; a
\* square window has (1, 1) and 1920 x 1080 has (1920 / 1080, 1).
C8_AspectScale ==
    app = "Running" =>
        LET width == window_size[1]
            height == window_size[2]
            shorter == IF width <= height THEN width ELSE height
            ax == aspect_scale[1]
            ay == aspect_scale[2]
        IN  /\ ax[1] * shorter = ax[2] * width
            /\ ay[1] * shorter = ay[2] * height
            /\ ax[2] > 0 /\ ay[2] > 0
            /\ ax[1] >= ax[2] /\ ay[1] >= ay[2]
            /\ (width <= height => ax = <<1, 1>>)
            /\ (height <= width => ay = <<1, 1>>)
            /\ (width = 1920 /\ height = 1080 => ax[1] * 1080 = ax[2] * 1920 /\ ay = <<1, 1>>)

\* C8 witness: the window was resized to portrait 1080 x 1920
C8_Witness ==
    /\ app = "Running"
    /\ window_size = <<1080, 1920>>
    /\ aspect_scale = <<<<1, 1>>, <<16, 9>>>>

\* ------------------------------------------------------------ the camera
\* keyboard navigation, orbit and the locks
CameraKeys == {"a", "e", "ArrowDown", "ArrowRight", "p", "l", "L", "o"}

OrbitScrolls == {100}

NextCamera ==
    \/ resumed(1920, 1080, TRUE)
    \/ \E dt \in 1..MaxDt : draw(dt, TRUE)
    \/ \E key \in CameraKeys, pressed \in BOOLEAN : handle_key(key, pressed, TRUE) /\ Cardinality(held_keys') <= MaxHeld
    \/ \E dx \in OrbitScrolls : handle_mouse_wheel("PixelDelta", dx, 0)

SpecCamera == InitDebug /\ [][NextCamera]_vars

\* look control with the grabbed cursor, together with keyboard pitch, orbit
\* and the locks
CursorKeys == {"ArrowDown", "e", "p", "l", "L"}

CursorPositions == {<<0, 0>>, <<1, -1>>, <<0, 2>>}

NextCursor ==
    \/ resumed(1920, 1080, TRUE)
    \/ \E dt \in 0..MaxDt : draw(dt, TRUE)
    \/ \E key \in CursorKeys, pressed \in BOOLEAN : handle_key(key, pressed, TRUE) /\ Cardinality(held_keys') <= MaxHeld
    \/ \E dx \in OrbitScrolls : handle_mouse_wheel("PixelDelta", dx, 0)
    \/ handle_mouse("Left", TRUE, TRUE)
    \/ \E cursor \in CursorPositions : handle_cursor_movement(cursor, TRUE)

SpecCursor == InitDebug /\ [][NextCursor]_vars

\* C3: in every reachable camera state pitch lies in [-90 degrees, +90 degrees]
\* (a quarter turn either way), after any sequence of update (keyboard pitch,
\* orbit, pitch-lock recompute), rotate_from_cursor_movement, toggle_lock_pitch
\* and cycle_lock_yaw_mode.
C3_PitchInRange == 4 * pitch <= FULL_TURN /\ 4 * pitch >= -FULL_TURN

\* C3 witness: the cursor is grabbed, the pitch key is held and the pitch is at
\* the upper limit, where the next frame has to clamp
C3_Witness ==
    /\ app = "Running"
    /\ is_cursor_grabbed
    /\ last_cursor_position # None
    /\ "PitchDown" \in held_keys
    /\ pitch = MAX_PITCH
    /\ time > 0

\* C4: in every reachable camera state yaw is reduced modulo a full turn (its
\* magnitude is strictly less than a full turn), also in frames in which a
\* yaw-lock mode recomputes it from the position; and add_yaw(delta) leaves yaw
\* congruent to yaw + delta modulo a full turn.
C4_YawReduced ==
    /\ Abs(yaw) < FULL_TURN
    /\ \A delta \in -2..2 :
           /\ (add_yaw(Camera, delta).yaw - (yaw + delta)) % FULL_TURN = 0
           /\ Abs(add_yaw(Camera, delta).yaw) < FULL_TURN

ModeOrder == <<"None", "Inwards", "Right", "Outwards", "Left">>

ModeIndex(mode) == CHOOSE i \in 1..5 : ModeOrder[i] = mode

\* C6: the yaw-lock modes form a 5-cycle None -> Inwards -> Right -> Outwards ->
\* Left -> None: a forward cycle goes to the next mode of that order, five
\* forward cycles return to the same mode, and cycling backward is the inverse
\* of cycling forward.
C6_YawLockCycle ==
    LET fwd(c) == cycle_lock_yaw_mode(c, FALSE)
        bwd(c) == cycle_lock_yaw_mode(c, TRUE)
    IN  /\ fwd(Camera).lock_yaw_mode = ModeOrder[(ModeIndex(lock_yaw_mode) % 5) + 1]
        /\ fwd(fwd(fwd(fwd(fwd(Camera))))) = Camera
        /\ bwd(fwd(Camera)) = Camera
        /\ fwd(bwd(Camera)) = Camera

\* C6 witness: the last mode of the cycle is active
C6_Witness == app = "Running" /\ lock_yaw_mode = "Left"

\* ------------------------------------------- the scroll-driven rates
\* orbit rates a session can have reached by scrolling from rest: at rest, below
\* min (a scroll of 0.01 from rest leaves 0.2 * 0.01 * 0.025 = 0.00005), between
\* min and max
RateSamples == {0, 5, 3000}

\* a running session in a 1920x1080 window, some scrolls after resume
InitRates ==
    /\ app = "Running"
    /\ debug_build = TRUE
    /\ shader_file = "valid"
    /\ render_pipeline = 1
    /\ pipelines_created = 1
    /\ reloads = 0
    /\ reload_result = "none"
    /\ factor = DEFAULT_FACTOR
    /\ render_texture = render_texture_size(DEFAULT_FACTOR)
    /\ is_cursor_grabbed = FALSE
    /\ last_cursor_position = None
    /\ window_cursor = None
    /\ cursor_grab_calls = 0
    /\ window_size = <<1920, 1080>>
    /\ aspect_scale = update_aspect(1920, 1080)
    /\ time = 0
    /\ num_iterations = U32(0)
    /\ scene_index = 0
    /\ held_keys = {}
    /\ keys_down = {}
    /\ parameters_buffer = size_of_Parameters
    /\ frame = <<>>
    /\ movement_per_second = Camera_default.movement_per_second
    /\ orbit_angle_per_second \in RateSamples
    /\ lock_yaw_mode = Camera_default.lock_yaw_mode
    /\ lock_pitch = Camera_default.lock_pitch
    /\ position = Camera_default.position
    /\ pitch = Camera_default.pitch
    /\ yaw = Camera_default.yaw
    /\ time_factor = RATE_ONE

RateKeys == {"Shift", "Control", "o", "t"}

WheelDeltas == {<<100, 0>>, <<-100, 0>>, <<0, 400>>, <<0, -400>>}

NextRates ==
    \/ \E key \in RateKeys, pressed \in BOOLEAN : handle_key(key, pressed, TRUE) /\ Cardinality(held_keys') <= MaxHeld
    \/ \E kind \in {"LineDelta", "PixelDelta"}, d \in WheelDeltas :
           handle_mouse_wheel(kind, d[1], d[2])

SpecRates == InitRates /\ [][NextRates]_vars

\* C9: the movement speed is strictly positive in every reachable state, after
\* any sequence of update_speed calls with finite deltas.
C9_SpeedPositive == movement_per_second \notin {LOG_ZERO, LOG_NAN}

\* the increment the bounded-quadratic smoothing owes for rate v and scroll
\* delta d: 0.2 * d * 0.025 from rest, else 0.2 * d * |v| with |v| held within
\* [0.0001, 0.1]
C10_Increment(v, d) ==
    IF v = 0 THEN TruncDiv(2 * d * 2500, 10)
    ELSE IF Abs(v) < 10 THEN TruncDiv(2 * d * 10, 10)
    ELSE IF Abs(v) > 10000 THEN TruncDiv(2 * d * 10000, 10)
    ELSE TruncDiv(2 * d * Abs(v), 10)

C10_Deltas == {-400, -100, -1, 1, 50, 100, 400}

\* C10: the delta applied to a rate is linear * delta * factor, with the factor
\* the kickoff at a zero rate and clamp(|v|, min, max) at a nonzero rate v; the
\* orbit speed uses kickoff 0.025, min 0.0001, max 0.1, linear 0.2, and the time
\* factor is adjusted by the same function.  From rest a unit delta gives the
\* fixed amount 0.2 * 0.025 = 0.005.
C10_BoundedQuadratic ==
    /\ [](\A d \in C10_Deltas :
            /\ update_orbit_speed(Camera, d).orbit_angle_per_second =
                   orbit_angle_per_second + C10_Increment(orbit_angle_per_second, d)
            /\ update_time_factor(time_factor, d) = time_factor + C10_Increment(time_factor, d)
            /\ limited_quadratric_delta(0, 1, ORBIT_KICKOFF, ORBIT_MIN, ORBIT_MAX, ORBIT_LINEAR) = 500)
    /\ [][/\ (orbit_angle_per_second' # orbit_angle_per_second /\ orbit_angle_per_second' # 0) =>
                \E x \in {-400, -200, -100, -50, 50, 100, 200, 400} :
                    orbit_angle_per_second' =
                        orbit_angle_per_second + C10_Increment(orbit_angle_per_second, x)
           /\ (time_factor' # time_factor /\ time_factor' # 0) =>
                \E y \in {-400, -200, 200, 400} :
                    time_factor' = time_factor + C10_Increment(time_factor, y)]_vars

\* C10 witness: the orbit rate has been scrolled up from below min, and the time
\* factor from its start 1.0, which is above max
C10_Witness ==
    /\ orbit_angle_per_second = 5 + C10_Increment(5, 100)
    /\ time_factor = RATE_ONE + C10_Increment(RATE_ONE, 400)


\* ------------------------------------------------------ the shader time
\* frames of 0 or 1 time units, the time factor scrolled with Control held and
\* stopped with t
TimingKeys == {"t", "Control"}

TimingScrolls == {400, -400}

NextTiming ==
    \/ resumed(1920, 1080, TRUE)
    \/ \E dt \in 0..MaxDt : draw(dt, TRUE)
    \/ \E key \in TimingKeys, pressed \in BOOLEAN : handle_key(key, pressed, TRUE) /\ Cardinality(held_keys') <= MaxHeld
    \/ \E dy \in TimingScrolls : is_control_pressed(held_keys) /\ handle_mouse_wheel("PixelDelta", 0, dy)

SpecTiming == InitDebug /\ [][NextTiming]_vars

Uploads == {i \in DOMAIN frame : frame[i][1] = "queue.write_buffer"}

\* C12: the uniform block has the field order camera_matrix (64 bytes),
\* aspect_scale (8), time (4), num_iterations (4), scene_index (4), padding, and
\* a size of 96 bytes, a multiple of 16; the uniform buffer is created with this
\* size and every upload writes the whole block at offset 0.
C12_UniformBlockLayout ==
    /\ [i \in DOMAIN ParametersFields |-> ParametersFields[i].name]
         = <<"camera_matrix", "aspect_scale", "time", "num_iterations", "scene_index", "padding">>
    /\ [i \in 1..5 |-> ParametersFields[i].size] = <<64, 8, 4, 4, 4>>
    /\ [i \in 1..5 |-> offset_of(ParametersFields, i)] = <<0, 64, 72, 76, 80>>
    /\ size_of_Parameters = 96
    /\ size_of_Parameters % 16 = 0
    /\ app = "Running" => parameters_buffer = size_of_Parameters
    /\ \A i \in Uploads : frame[i][2] = 0 /\ frame[i][3] = size_of_Parameters /\ frame[i][3] = parameters_buffer

\* C12 witness: a frame has uploaded the block into the created buffer
C12_Witness == app = "Running" /\ parameters_buffer = 96 /\ Uploads # {}

\* --------------------------------------------------------------- the orbit
\* frames with the orbit speed scrolled up from rest and reset with o, after
\* movement off the axis (a) and off the ground plane (e)
OrbitKeys == {"a", "e", "o"}

NextOrbit ==
    \/ resumed(1920, 1080, TRUE)
    \/ \E dt \in 0..MaxDt : draw(dt, TRUE)
    \/ \E key \in OrbitKeys, pressed \in BOOLEAN : handle_key(key, pressed, TRUE) /\ Cardinality(held_keys') <= MaxHeld
    \/ \E dx \in OrbitScrolls \cup {-x : x \in OrbitScrolls} : handle_mouse_wheel("PixelDelta", dx, 0)

SpecOrbit == InitDebug /\ [][NextOrbit]_vars

\* the square of the horizontal radius sqrt(x^2 + z^2)
Radius2(p) == p.x * p.x + p.z * p.z

\* C13: the orbit step is a pure rotation about the world-up axis: do_orbit
\* leaves the horizontal radius and the height of the position unchanged for
\* every orbit speed and dt, changes nothing but the position, and leaves the
\* position unchanged when the orbit speed is zero; so does the orbit step of
\* every frame, which acts on the position the movement step left.
C13_OrbitPureRotation ==
    /\ [](\A dt \in 0..MaxDt :
            LET c == do_orbit(Camera, dt)
            IN  /\ Radius2(c.position) = Radius2(position)
                /\ c.position.y = position.y
                /\ [c EXCEPT !.position = position] = Camera
                /\ orbit_angle_per_second = 0 => c = Camera)
    /\ [][\A dt \in 0..MaxDt :
            draw(dt, TRUE) =>
                LET moved == do_movement(Camera, held_keys, dt).position
                IN  /\ Radius2(position') = Radius2(moved)
                    /\ position'.y = moved.y
                    /\ orbit_angle_per_second = 0 => position' = moved]_vars

\* C13 witness: off the axis and off the ground plane, an orbit step that turns
\* the position
C13_Witness ==
    /\ app = "Running"
    /\ orbit_angle_per_second # 0
    /\ position.x # 0 /\ position.y # 0
    /\ do_orbit(Camera, MaxDt).position # position

\* ------------------------------------------------------------- the frame
\* the names of the calls of the most recent frame, in order
FrameCalls == [i \in DOMAIN frame |-> frame[i][1]]

Called(name) == \E i \in DOMAIN frame : frame[i][1] = name

\* Surface::get_current_texture returned an error in the most recent frame
FrameRefused == \E i \in DOMAIN frame : frame[i] = <<"get_current_texture", 0, 0>>

\* C14: a failure to acquire the next swapchain image is a hard error for that
\* frame: its commands are not submitted, nothing is presented, no next frame is
\* requested, and the error ends the viewer, which draws no further frame (no
\* retry).
C14_AcquireFailureIsFatal ==
    /\ [](FrameRefused =>
            /\ app = "Aborted"
            /\ ~Called("do_blit_pass")
            /\ ~Called("queue.submit")
            /\ ~Called("pre_present_notify")
            /\ ~Called("present")
            /\ ~Called("request_redraw"))
    /\ [][\A dt \in 0..MaxDt : draw(dt, FALSE) => FrameRefused' /\ app' = "Aborted"]_vars
    /\ [][app = "Aborted" => app' = "Aborted" /\ frame' = frame]_vars

\* C14 witness: the frame was refused after the offscreen pass was recorded
C14_Witness == FrameRefused /\ Called("do_render_texture_pass") /\ app = "Aborted"

\* ------------------------------------------------------- the cursor grab
\* the step issued a Window::set_cursor_grab call
GrabCallIssued == cursor_grab_calls' # cursor_grab_calls

\* C15: a failure of the platform call that grabs or releases the cursor is
\* fatal: it aborts the handling of the event and the process, and
\* is_cursor_grabbed keeps the value it had before the failed call.
C15_GrabFailureIsFatal ==
    /\ [][(handle_mouse("Left", TRUE, FALSE) /\ GrabCallIssued) =>
              app' = "Aborted" /\ is_cursor_grabbed' = is_cursor_grabbed]_vars
    /\ [][(handle_focused(FALSE, FALSE) /\ GrabCallIssued) =>
              app' = "Aborted" /\ is_cursor_grabbed' = is_cursor_grabbed]_vars
    /\ [][(handle_key("Escape", TRUE, FALSE) /\ GrabCallIssued) =>
              app' = "Aborted" /\ is_cursor_grabbed' = is_cursor_grabbed]_vars

GrabUnchanged == UNCHANGED <<is_cursor_grabbed, cursor_grab_calls>>

\* C16: a left-button press requests a grab, an Escape press or a focus-lost
\* event releases it, so with the platform calls succeeding the cursor is
\* grabbed exactly when the most recent of these three events was a left-button
\* press (each of them sets the flag, nothing else changes it); other buttons,
\* releases and focus-gained events never change the grab state; and the
\* platform call is issued only on an actual state transition.
C16_CursorGrabStateMachine ==
    /\ [][handle_mouse("Left", TRUE, TRUE) => is_cursor_grabbed']_vars
    /\ [][handle_key("Escape", TRUE, TRUE) => ~is_cursor_grabbed']_vars
    /\ [][handle_focused(FALSE, TRUE) => ~is_cursor_grabbed']_vars
    /\ [][\A button \in {"Left", "Right"}, pressed \in BOOLEAN, platform_ok \in BOOLEAN :
            (handle_mouse(button, pressed, platform_ok) /\ ~(button = "Left" /\ pressed)) => GrabUnchanged]_vars
    /\ [][\A platform_ok \in BOOLEAN : handle_focused(TRUE, platform_ok) => GrabUnchanged]_vars
    /\ [][\A platform_ok \in BOOLEAN : handle_key("Escape", FALSE, platform_ok) => GrabUnchanged]_vars
    /\ [][is_cursor_grabbed' # is_cursor_grabbed =>
            \/ handle_mouse("Left", TRUE, TRUE)
            \/ handle_key("Escape", TRUE, TRUE)
            \/ handle_focused(FALSE, TRUE)]_vars
    /\ [][\A platform_ok \in BOOLEAN :
            /\ (handle_mouse("Left", TRUE, platform_ok) /\ is_cursor_grabbed) => GrabUnchanged
            /\ (handle_key("Escape", TRUE, platform_ok) /\ ~is_cursor_grabbed) => GrabUnchanged
            /\ (handle_focused(FALSE, platform_ok) /\ ~is_cursor_grabbed) => GrabUnchanged]_vars
    /\ [][(GrabCallIssued /\ cursor_grab_calls' = cursor_grab_calls + 1) \/ GrabUnchanged]_vars

\* C16 witness: grabbed, released and grabbed again
C16_Witness == app = "Running" /\ is_cursor_grabbed /\ cursor_grab_calls >= 3

\* ------------------------------------------------------------ held keys
\* keys of the keyboard: three navigation letters, an arrow, the modifiers and an
\* unbound letter
PhysicalKeys == {"w", "s", "a", "ArrowUp", "Shift", "Control", "x"}

NextKeys ==
    \/ resumed(1920, 1080, TRUE)
    \/ \E physical \in PhysicalKeys, pressed \in BOOLEAN : keyboard_input(physical, pressed)

SpecKeys == InitDebug /\ [][NextKeys]_vars

\* the flags whose bound keys are down
FlagsOf(keys) == {held_key_of(k) : k \in keys} \ {"none"}

\* C17: after any sequence of key events, Shift or Control pressed or released
\* while a navigation key is down included, each held-key flag is set exactly
\* when its bound key is currently held; a press or release of a bound key
\* changes no other flag and an unbound key changes none.
C17_HeldKeysSymmetric ==
    /\ [](held_keys = FlagsOf(keys_down))
    /\ [][\A physical \in PhysicalKeys, pressed \in BOOLEAN :
            keyboard_input(physical, pressed) =>
                \A flag \in HeldFlags \ {held_key_of(physical)} : (flag \in held_keys') = (flag \in held_keys)]_vars

\* ------------------------------------------------------ the scroll meanings
\* a scroll amount as handle_mouse_wheel reads it: lines count half
ScrollAmount(kind, v) == IF kind = "LineDelta" THEN TruncDiv(v, LINE_FACTOR_INV) ELSE v

\* C18: each scroll event has exactly one meaning, selected by the held
\* modifier: with Control it changes only the time factor and leaves the camera
\* (movement speed and orbit speed) unchanged; without Control it leaves the time
\* factor unchanged and gives the vertical amount to the movement speed and the
\* horizontal amount to the orbit speed; with Shift and no Control the movement
\* speed is unchanged and the orbit speed receives x + y.
C18_OneScrollMeaning ==
    [][\A kind \in {"LineDelta", "PixelDelta"}, d \in WheelDeltas :
          handle_mouse_wheel(kind, d[1], d[2]) =>
              LET x == ScrollAmount(kind, d[1])
                  y == ScrollAmount(kind, d[2])
              IN  /\ "Control" \in held_keys =>
                        /\ UNCHANGED camera_vars
                        /\ time_factor' = update_time_factor(time_factor, IF "Shift" \in held_keys THEN 0 ELSE y)
                  /\ ("Control" \notin held_keys /\ "Shift" \notin held_keys) =>
                        /\ time_factor' = time_factor
                        /\ movement_per_second' = update_speed(Camera, y).movement_per_second
                        /\ orbit_angle_per_second' = update_orbit_speed(Camera, x).orbit_angle_per_second
                        /\ UNCHANGED <<lock_yaw_mode, lock_pitch, position, pitch, yaw>>
                  /\ ("Control" \notin held_keys /\ "Shift" \in held_keys) =>
                        /\ time_factor' = time_factor
                        /\ movement_per_second' = movement_per_second
                        /\ orbit_angle_per_second' = update_orbit_speed(Camera, x + y).orbit_angle_per_second
                        /\ UNCHANGED <<lock_yaw_mode, lock_pitch, position, pitch, yaw>>]_vars

\* C18 witness: a scroll with Control held has changed the time factor after
\* scrolls without it changed both camera rates
C18_Witness ==
    /\ "Control" \in held_keys
    /\ time_factor # RATE_ONE
    /\ movement_per_second # Camera_default.movement_per_second
    /\ orbit_angle_per_second \notin RateSamples

\* ------------------------------------------------------------ the movement
\* frames with up to MaxMoveKeys of the movement keys and a yaw key held
MoveKeys == {"w", "s", "a", "ArrowRight"}

NextMove ==
    \/ resumed(1920, 1080, TRUE)
    \/ \E dt \in 0..MaxDt : draw(dt, TRUE)
    \/ \E key \in MoveKeys, pressed \in BOOLEAN : handle_key(key, pressed, TRUE) /\ Cardinality(held_keys') <= MaxMoveKeys

SpecMove == InitDebug /\ [][NextMove]_vars

MoveFlags == {"MoveForward", "MoveBackward", "MoveRight", "MoveLeft", "MoveUp", "MoveDown"}

\* the camera of the state at speed e^7 = 1024 lattice steps per time unit,
\* where the lattice resolves the components of a diagonal
FastCamera == [Camera EXCEPT !.movement_per_second = 70]

\* the displacement do_movement gives camera c with these keys held
Displacement(c, keys, seconds) ==
    VecAdd(do_movement(c, keys, seconds).position, VecScale(c.position, -1))

Dot(u, v) == u.x * v.x + u.y * v.y + u.z * v.z

\* the keys of an axis cancel, or the axis has no key
Cancelled(keys, positive, negative) == (positive \in keys) = (negative \in keys)

\* C19: with only the forward key held, orbit speed zero and no locks, a frame
\* of dt moves the position by movement_speed * dt along the forward vector of
\* the yaw and leaves pitch and yaw unchanged; any combination of movement keys
\* that does not cancel displaces the position by movement_speed * dt (to the
\* rounding of the lattice: diagonals are not faster), and opposing keys on one
\* axis give no displacement on that axis.
C19_Movement ==
    /\ [][\A dt \in 0..MaxDt :
            (/\ draw(dt, TRUE)
             /\ held_keys = {"MoveForward"}
             /\ orbit_angle_per_second = 0
             /\ lock_yaw_mode = "None" /\ ~lock_pitch) =>
                /\ position' = VecAdd(position, VecScale(forward(Camera), SpeedUnits(movement_per_second) * dt))
                /\ pitch' = pitch
                /\ yaw' = yaw]_vars
    /\ [](\A keys \in SUBSET MoveFlags, dt \in 1..MaxDt :
            LET d == Displacement(FastCamera, keys, dt)
                length == SpeedUnits(FastCamera.movement_per_second) * dt
            IN  /\ Cancelled(keys, "MoveForward", "MoveBackward") => Dot(d, forward(Camera)) = 0
                /\ Cancelled(keys, "MoveRight", "MoveLeft") => Dot(d, right(Camera)) = 0
                /\ Cancelled(keys, "MoveUp", "MoveDown") => Dot(d, up(Camera)) = 0
                /\ ~(/\ Cancelled(keys, "MoveForward", "MoveBackward")
                     /\ Cancelled(keys, "MoveRight", "MoveLeft")
                     /\ Cancelled(keys, "MoveUp", "MoveDown")) =>
                        /\ Dot(d, d) <= (length + 2) * (length + 2)
                        /\ length >= 2 => Dot(d, d) >= (length - 2) * (length - 2))

\* C19 witness: from the origin at yaw 0, pitch 0 and speed 1, a frame of one
\* time unit with the forward key held has reached the unit forward vector
C19_Witness ==
    /\ held_keys = {"MoveForward"}
    /\ yaw = 0 /\ pitch = 0
    /\ movement_per_second = 0
    /\ position = [x |-> 0, y |-> 0, z |-> 1]

\* ------------------------------------------------------ the frame's order
\* the steps of a frame, the creation of the command encoder left out
FrameSteps == SelectSeq(FrameCalls, LAMBDA name : name # "create_command_encoder")

Count(name) == Cardinality({i \in DOMAIN frame : frame[i][1] = name})

FrameOrder ==
    <<"timing.update", "camera.update", "parameters.update_camera", "queue.write_buffer",
      "do_render_texture_pass", "get_current_texture", "do_blit_pass", "queue.submit",
      "pre_present_notify", "present", "request_redraw">>

\* C20: within every frame the steps occur in the order timing tick, camera
\* update, camera matrix written into the parameters, upload of the whole
\* uniform block, offscreen pass with the active fractal pipeline, swapchain
\* image acquired, composite pass with the fixed pipeline, submit, pre-present
\* notification, present, request of the next frame; a successful frame has
\* exactly one upload, one submit, one present and one redraw request.
C20_FrameOrder ==
    /\ []((frame # <<>> /\ ~FrameRefused) =>
            /\ FrameSteps = FrameOrder
            /\ Count("queue.write_buffer") = 1
            /\ Count("queue.submit") = 1
            /\ Count("present") = 1
            /\ Count("request_redraw") = 1)
    /\ [](FrameRefused => FrameSteps = SubSeq(FrameOrder, 1, Len(FrameSteps)))
    /\ [][\A dt \in 0..MaxDt, frame_ok \in BOOLEAN :
            draw(dt, frame_ok) =>
                /\ \A i \in DOMAIN frame' :
                      /\ frame'[i][1] = "queue.write_buffer" => frame'[i][3] = size_of_Parameters
                      /\ frame'[i][1] = "do_render_texture_pass" => frame'[i][2] = render_pipeline
                      /\ frame'[i][1] = "do_blit_pass" => frame'[i][2] = blit_render_pipeline
                /\ frame_ok = ~FrameRefused']_vars

\* C20 witness: a successful frame rendered with a reloaded fractal pipeline
C20_Witness ==
    /\ app = "Running"
    /\ Called("request_redraw")
    /\ \E i \in DOMAIN frame : frame[i][1] = "do_render_texture_pass" /\ frame[i][2] > 1

\* ------------------------------------------------- the offscreen target
\* C21: after every update_render_texture_size the offscreen target has the
\* dimensions (160 * factor, 90 * factor) of the current factor, so the target
\* never lags the configuration in any reachable state; the resolution change
\* leaves the uniform buffer and the active fractal pipeline unchanged (the
\* composite pipeline is created once and never replaced).
C21_TargetFollowsFactor ==
    /\ [](render_texture = <<160 * factor, 90 * factor>>)
    /\ [][\A key \in {">", "<"} :
            handle_key(key, TRUE, TRUE) =>
                /\ factor' = Max2(1, factor + (IF key = ">" THEN 1 ELSE -1))
                /\ render_texture' = <<160 * factor', 90 * factor'>>
                /\ UNCHANGED <<reload_vars, parameters_buffer, parameters_vars>>]_vars

\* C21 witness: the target after one increase of the default factor
C21_Witness == app = "Running" /\ factor = DEFAULT_FACTOR + 1 /\ render_texture = <<2080, 1170>>

\* ------------------------------------------------------------- the locks
\* frames with the forward key, both locks and look control by the grabbed
\* cursor
LockKeys == {"w", "l", "p"}

LockCursorPositions == {<<0, 0>>, <<1, 1>>}

NextLock ==
    \/ resumed(1920, 1080, TRUE)
    \/ \E dt \in 1..MaxDt : draw(dt, TRUE)
    \/ \E key \in LockKeys, pressed \in BOOLEAN : handle_key(key, pressed, TRUE) /\ Cardinality(held_keys') <= MaxHeld
    \/ handle_mouse("Left", TRUE, TRUE)
    \/ \E cursor \in LockCursorPositions : handle_cursor_movement(cursor, TRUE)

SpecLock == InitDebug /\ [][NextLock]_vars

\* the cursor can deliver a delta in this state
CursorLive == is_cursor_grabbed /\ last_cursor_position # None

\* the cameras of the runs in which the cursor moved horizontally (yaw input
\* only) before the next frame, or did not move
YawInputRuns ==
    IF CursorLive
    THEN {rotate_from_cursor_movement(Camera, c[1] - last_cursor_position[1], 0) : c \in LockCursorPositions}
    ELSE {Camera}

\* the same for vertical movement (pitch input only)
PitchInputRuns ==
    IF CursorLive
    THEN {rotate_from_cursor_movement(Camera, 0, c[2] - last_cursor_position[2]) : c \in LockCursorPositions}
    ELSE {Camera}

\* the held keys of the runs that differ in the arrow keys of one axis
ArrowRuns(positive, negative) ==
    {(held_keys \ {positive, negative}) \cup k : k \in SUBSET {positive, negative}}

\* positions the camera could be at instead
OtherPositions == {position, VecZero, [x |-> 1, y |-> 1, z |-> 0], [x |-> -1, y |-> 0, z |-> 1]}

\* with no lock, update takes yaw and pitch from the keys and not from the
\* position
NoLockIgnoresPosition ==
    \A dt \in 0..MaxDt, p \in OtherPositions :
        LET a == update(Camera, held_keys, dt)
            b == update([Camera EXCEPT !.position = p], held_keys, dt)
        IN  /\ lock_yaw_mode = "None" =>
                a.yaw = b.yaw /\ a.yaw = add_yaw(Camera, RateTimesSeconds(ROTATION_PER_SECOND, dt) * yaw_magnitude(held_keys)).yaw
            /\ ~lock_pitch =>
                a.pitch = b.pitch /\ a.pitch = add_pitch(Camera, RateTimesSeconds(ROTATION_PER_SECOND, dt) * pitch_magnitude(held_keys)).pitch

\* with the pitch lock on, manual pitch input does not reach the pitch after
\* the update
PitchLockOverrides ==
    \A dt \in 0..MaxDt, other \in PitchInputRuns, keys \in ArrowRuns("PitchDown", "PitchUp") :
        lock_pitch => update(other, keys, dt).pitch = update(Camera, held_keys, dt).pitch

\* C22 as stated: while a yaw-lock mode is active, two runs that differ only in
\* manual yaw input (arrow keys held, cursor deltas between frames) have the same
\* yaw after each update; while pitch-lock is on the pitch after each update is
\* determined by the position alone; with no lock update never recomputes yaw or
\* pitch from the position.
C22_LockOverridesManualInput ==
    /\ \A dt \in 0..MaxDt, other \in YawInputRuns, keys \in ArrowRuns("YawRight", "YawLeft") :
           lock_yaw_mode # "None" => update(other, keys, dt).yaw = update(Camera, held_keys, dt).yaw
    /\ PitchLockOverrides
    /\ NoLockIgnoresPosition

\* C22 amended: while a yaw-lock mode is active, two runs that differ only in
\* manual yaw input have the same yaw after every update after which they are
\* at the same position, as they are whenever no movement key is held, and for
\* arrow-key input always; the pitch and no-lock parts as stated.
C22_LockDeterminedByPosition ==
    /\ \A dt \in 0..MaxDt, other \in YawInputRuns, keys \in ArrowRuns("YawRight", "YawLeft") :
           LET a == update(Camera, held_keys, dt)
               b == update(other, keys, dt)
           IN  lock_yaw_mode # "None" =>
                   /\ a.position = b.position => a.yaw = b.yaw
                   /\ held_keys \cap MoveFlags = {} => a.position = b.position
                   /\ update(Camera, keys, dt).yaw = a.yaw
    /\ PitchLockOverrides
    /\ NoLockIgnoresPosition

\* C22 witness: a yaw-lock mode and the pitch lock are active, the cursor has
\* turned the camera away from the locked yaw, and the camera is off its start
C22_Witness ==
    /\ lock_yaw_mode = "Inwards" /\ lock_pitch
    /\ CursorLive
    /\ yaw # do_lock_yaw(Camera).yaw
    /\ pitch # do_lock_pitch(Camera).pitch
    /\ position # Camera_default.position

\* the offsets of the claim in quarter turns: +180 degrees for Inwards, 0 for
\* Outwards, 90 degrees of sign s for Right and of the opposite sign for Left
LockOffset(mode, s) ==
    CASE mode = "Inwards" -> 2
      [] mode = "Outwards" -> 0
      [] mode = "Right" -> s
      [] mode = "Left" -> -s

Congruent(a, b) == (a - b) % FULL_TURN = 0

\* C23 as stated: in each yaw-lock mode the yaw recomputed by update equals
\* atan2(-position.x, -position.z) plus the offset of the mode, modulo a full
\* turn (for one of the two assignments of signs to Right and Left).
C23_LockYawFromNegatedPosition ==
    \A dt \in 0..MaxDt :
        LET c == update(Camera, held_keys, dt)
        IN  lock_yaw_mode # "None" =>
                \E s \in {1, -1} :
                    Congruent(c.yaw, Atan2(-c.position.x, -c.position.z) + LockOffset(lock_yaw_mode, s))

\* C23 amended: in each yaw-lock mode the yaw recomputed by update equals
\* atan2(position.x, position.z) plus the offset of the mode, modulo a full
\* turn: 180 degrees for Inwards, 0 for Outwards, -90 degrees for Right and +90
\* degrees for Left; so does the yaw after every frame.
C23_LockYawFromPosition ==
    /\ [](\A dt \in 0..MaxDt :
            LET c == update(Camera, held_keys, dt)
            IN  lock_yaw_mode # "None" =>
                    Congruent(c.yaw, Atan2(c.position.x, c.position.z) + LockOffset(lock_yaw_mode, -1)))
    /\ [][\A dt \in 0..MaxDt :
            (draw(dt, TRUE) /\ lock_yaw_mode # "None") =>
                Congruent(yaw', Atan2(position'.x, position'.z) + LockOffset(lock_yaw_mode, -1))]_vars

\* C23 witness: off both axes, a frame in mode Right has set the yaw
C23_Witness ==
    /\ lock_yaw_mode = "Right"
    /\ position.x # 0 /\ position.z # 0
    /\ yaw = Atan2(position.x, position.z) - 1
    /\ time > 0

\* ------------------------------------------------- movement and pitch
\* frames with a movement key or the pitch key held
PitchKeys == {"w", "a", "ArrowDown"}

NextPitch ==
    \/ resumed(1920, 1080, TRUE)
    \/ \E dt \in 0..MaxDt : draw(dt, TRUE)
    \/ \E key \in PitchKeys, pressed \in BOOLEAN : handle_key(key, pressed, TRUE) /\ Cardinality(held_keys') <= MaxHeld

SpecPitch == InitDebug /\ [][NextPitch]_vars

HorizontalFlags == {"MoveForward", "MoveBackward", "MoveRight", "MoveLeft"}

\* the pitches of the lattice
Pitches == MIN_PITCH..MAX_PITCH

\* the held movement keys of the state, each movement key alone and a diagonal
PitchTestKeys ==
    {held_keys \cap MoveFlags, {"MoveForward", "MoveRight"}} \cup {{flag} : flag \in MoveFlags}

\* C24: movement is decoupled from pitch: two cameras that differ only in pitch
\* (pitch-lock off) get the same position change from update for the same held
\* keys and dt, and movement with only forward / backward / left / right keys
\* never changes position.y.
C24_MovementIgnoresPitch ==
    /\ [](\A dt \in 1..MaxDt, other \in Pitches, keys \in PitchTestKeys :
            /\ ~lock_pitch =>
                   update([Camera EXCEPT !.pitch = other], keys, dt).position = update(Camera, keys, dt).position
            /\ keys \subseteq HorizontalFlags =>
                   do_movement([Camera EXCEPT !.pitch = other], keys, dt).position.y = position.y)
    /\ [][\A dt \in 0..MaxDt :
            (draw(dt, TRUE) /\ held_keys \cap MoveFlags \subseteq HorizontalFlags) => position'.y = position.y]_vars

\* C24 witness: the camera looks up or down, pitch-lock is off, and a frame has
\* moved it with the forward key held
C24_Witness ==
    /\ pitch # 0 /\ ~lock_pitch
    /\ "MoveForward" \in held_keys
    /\ position # Camera_default.position
    /\ time > 0

\* ------------------------------------------------------------ cursor look
\* looking around with the pointer: grabbing, releasing, pointer events the
\* window system accepts or refuses to re-centre
LookPositions == {<<0, 0>>, <<1, -1>>, <<0, 2>>}

NextLook ==
    \/ resumed(1920, 1080, TRUE)
    \/ handle_mouse("Left", TRUE, TRUE)
    \/ handle_key("Escape", TRUE, TRUE)
    \/ handle_focused(FALSE, TRUE)
    \/ \E cursor \in LookPositions, platform_ok \in BOOLEAN : handle_cursor_movement(cursor, platform_ok)

SpecLook == InitDebug /\ [][NextLook]_vars

\* C25: while the cursor is grabbed and an anchor is known, a cursor-moved
\* event is taken as the delta position - anchor: the pointer is put back on
\* the anchor, the anchor stays as it was, the delta's x turns yaw and its y
\* turns pitch (clamped) at 0.0003 rad per pixel, which is a quarter turn per
\* cursor unit; when the pointer cannot be put back the handler fails, which
\* ends the process, and the camera is not turned.
C25_GrabbedCursorDelta ==
    [][\A cursor \in LookPositions, platform_ok \in BOOLEAN :
          (handle_cursor_movement(cursor, platform_ok) /\ CursorLive) =>
              LET dx == cursor[1] - last_cursor_position[1]
                  dy == cursor[2] - last_cursor_position[2]
              IN  /\ last_cursor_position' = last_cursor_position
                  /\ platform_ok =>
                         /\ window_cursor' = last_cursor_position
                         /\ Congruent(yaw', yaw + dx)
                         /\ pitch' = Clamp(pitch + dy, MIN_PITCH, MAX_PITCH)
                         /\ app' = "Running"
                  /\ ~platform_ok =>
                         /\ app' = "Aborted"
                         /\ UNCHANGED camera_vars]_vars

C25_Witness ==
    /\ app = "Running"
    /\ CursorLive
    /\ window_cursor = last_cursor_position
    /\ yaw # 0
    /\ pitch # 0

\* C27: while the cursor is not grabbed, or is grabbed with no anchor recorded
\* yet, a cursor-moved event leaves pitch and yaw (and the rest of the camera)
\* alone and only records the position as the anchor.
C27_UngrabbedCursorRecords ==
    [][\A cursor \in LookPositions, platform_ok \in BOOLEAN :
          (handle_cursor_movement(cursor, platform_ok) /\ ~CursorLive) =>
              /\ pitch' = pitch
              /\ yaw' = yaw
              /\ UNCHANGED camera_vars
              /\ last_cursor_position' = cursor
              /\ UNCHANGED <<app, is_cursor_grabbed, cursor_grab_calls>>]_vars

C27_Witness ==
    /\ app = "Running"
    /\ ~is_cursor_grabbed
    /\ cursor_grab_calls = 0
    /\ last_cursor_position = <<1, -1>>
    /\ pitch = 0
    /\ yaw = 0

\* ------------------------------------------------- the pipeline generation
\* the pipeline generations the offscreen passes of the most recent frame used
OffscreenPasses == {frame[i][2] : i \in {j \in DOMAIN frame : frame[j][1] = "do_render_texture_pass"}}

\* C26: every frame's offscreen pass uses exactly the pipeline generation made
\* by the most recent successful reload, or by initialization if none
\* succeeded.  A new generation is made only by initialization and by a reload
\* that reports success, each makes exactly one and installs it in the same
\* step without drawing anything; a reload that does not report success makes
\* none and leaves the active one in place; and a frame drawn afterwards uses
\* the newest generation made so far.
C26_FrameUsesLatestGeneration ==
    /\ [][/\ pipelines_created' # pipelines_created =>
                /\ pipelines_created' = pipelines_created + 1
                /\ render_pipeline' = pipelines_created'
                /\ frame' = frame
                /\ \/ ReloadStep /\ reload_result' = "ok"
                   \/ app = "Uninitialized" /\ app' = "Running"
          /\ (ReloadStep /\ reload_result' = "ok") => pipelines_created' = pipelines_created + 1
          /\ (ReloadStep /\ reload_result' # "ok") =>
                /\ pipelines_created' = pipelines_created
                /\ render_pipeline' = render_pipeline
                /\ frame' = frame
          /\ \A dt \in 0..MaxDt, frame_ok \in BOOLEAN :
                draw(dt, frame_ok) => OffscreenPasses' = {pipelines_created}]_vars
    /\ [](frame # <<>> => \E generation \in 1..pipelines_created : OffscreenPasses = {generation})

\* C26 witness: a reload failed after an earlier one had succeeded, and the
\* last frame used the generation of the successful one
C26_Witness ==
    /\ app = "Running"
    /\ reload_result = "failed"
    /\ reloads >= 2
    /\ pipelines_created = 2
    /\ OffscreenPasses = {2}

\* ------------------------------------------------------- the one-shot keys
\* the keys handle_trigger_keys binds, and the keys handle_held_keys binds
TriggerKeys == {"Escape", "+", "-", "n", "b", "o", "p", "l", "L", "t", "r", ">", "<"}

HeldKeyBindings ==
    {"w", "s", "a", "d", "q", "e", "ArrowDown", "ArrowUp", "ArrowRight", "ArrowLeft", "Shift", "Control"}

\* key events of every one-shot key, of two held keys and of an unbound key,
\* with the cursor grabbed by a click and the orbit started by a scroll so that
\* Escape and o have something to act on; the counters are kept near their
\* start
TriggerEventKeys == TriggerKeys \cup {"w", "Shift", "x"}

TriggerBox ==
    /\ scene_index \in {0, 1, 18}
    /\ factor >= DEFAULT_FACTOR - 1
    /\ U32Leq(num_iterations, U32(1))
    /\ reloads <= 1
    /\ cursor_grab_calls <= 2
    /\ lock_yaw_mode \in {"None", "Inwards", "Left"}

NextTrigger ==
    \/ resumed(1920, 1080, TRUE)
    \/ handle_mouse("Left", TRUE, TRUE) /\ TriggerBox'
    \/ orbit_angle_per_second = 0 /\ \E dx \in OrbitScrolls : handle_mouse_wheel("PixelDelta", dx, 0)
    \/ \E key \in TriggerEventKeys, pressed \in BOOLEAN :
           /\ handle_key(key, pressed, TRUE)
           /\ Cardinality(held_keys') <= MaxHeld
           /\ TriggerBox'

SpecTrigger == InitDebug /\ [][NextTrigger]_vars

\* what a one-shot action acts on
ActionOf(key) ==
    CASE key = "Escape" -> "cursor"
      [] key \in {"+", "-"} -> "iterations"
      [] key \in {"n", "b"} -> "scene"
      [] key = "o" -> "orbit"
      [] key = "p" -> "lock_pitch"
      [] key \in {"l", "L"} -> "lock_yaw"
      [] key = "t" -> "time"
      [] key = "r" -> "reload"
      [] key \in {">", "<"} -> "resolution"
      [] OTHER -> "none"

\* the one-shot actions whose effect the step shows
ActionsFired ==
    {action \in {ActionOf(key) : key \in TriggerKeys} :
        CASE action = "cursor" -> <<is_cursor_grabbed, cursor_grab_calls>>' # <<is_cursor_grabbed, cursor_grab_calls>>
          [] action = "iterations" -> num_iterations' # num_iterations
          [] action = "scene" -> scene_index' # scene_index
          [] action = "orbit" -> orbit_angle_per_second' # orbit_angle_per_second
          [] action = "lock_pitch" -> lock_pitch' # lock_pitch
          [] action = "lock_yaw" -> lock_yaw_mode' # lock_yaw_mode
          [] action = "time" -> time_factor' # time_factor
          [] action = "reload" -> reload_vars' # reload_vars
          [] action = "resolution" -> blit_vars' # blit_vars}

\* everything but the held flags
SessionButHeldKeys ==
    <<app, env_vars, reload_vars, blit_vars, cursor_vars, parameters_vars, frame_vars, camera_vars, time_factor>>

\* C28: one-shot key actions fire only on press events: a key release changes
\* nothing but a held flag (no reload, iteration or scene change, orbit reset,
\* lock toggle or cycle, time stop, resolution change or cursor release); a
\* press event fires at most one action, the one its key is bound to; and the
\* one-shot keys are disjoint from the held keys, so that no key event both
\* changes a held flag and fires an action.
C28_OneShotOnPress ==
    /\ [](/\ TriggerKeys \cap HeldKeyBindings = {}
          /\ \A key \in TriggerKeys : held_key_of(key) = "none" /\ ActionOf(key) # "none"
          /\ \A key \in HeldKeyBindings : held_key_of(key) # "none" /\ ActionOf(key) = "none")
    /\ [][\A key \in TriggerEventKeys, pressed \in BOOLEAN :
            handle_key(key, pressed, TRUE) =>
                /\ ~pressed => UNCHANGED SessionButHeldKeys /\ ActionsFired = {}
                /\ pressed =>
                       /\ ActionsFired \subseteq {ActionOf(key)}
                       /\ Cardinality(ActionsFired) <= 1
                       /\ key \notin TriggerKeys => UNCHANGED SessionButHeldKeys
                /\ held_keys' # held_keys => UNCHANGED SessionButHeldKeys]_vars

\* C28 witness: every kind of one-shot action has fired, a held key is down
C28_Witness ==
    /\ app = "Running"
    /\ held_keys = {"MoveForward"}
    /\ num_iterations = U32(1)
    /\ scene_index = 18
    /\ lock_pitch
    /\ lock_yaw_mode = "Left"
    /\ time_factor = 0
    /\ reloads = 1
    /\ factor = DEFAULT_FACTOR + 1
    /\ orbit_angle_per_second = 0
    /\ ~is_cursor_grabbed
    /\ cursor_grab_calls = 2

\* ------------------------------------------------------ the iteration count
\* the iteration keys pressed at both ends of the u32 range, and the scene keys
IterationKeys == {"+", "-", "n"}

NextIterations ==
    \/ resumed(1920, 1080, TRUE)
    \/ hold_plus
    \/ \E key \in IterationKeys, pressed \in BOOLEAN : handle_key(key, pressed, TRUE)

SpecIterations == InitDebug /\ [][NextIterations]_vars

\* the count is a u32: 0 <= num_iterations <= 2^32 - 1
IsU32(u) == u[1] \in 0..(U16 - 1) /\ u[2] \in 0..(U16 - 1)

\* C29: the iteration count never wraps.  It is a u32 in every reachable state;
\* a -1 at 0 leaves it at 0 and a +1 at u32::MAX leaves it at u32::MAX; a +1
\* followed by a -1 restores the count except at u32::MAX (where it gives
\* u32::MAX - 1); and a press of + never lowers the count, a press of - never
\* raises it.
C29_IterationsSaturate ==
    /\ [](/\ IsU32(num_iterations)
          /\ IsU32(update_num_iterations(num_iterations, 1))
          /\ IsU32(update_num_iterations(num_iterations, -1))
          /\ num_iterations = U32(0) => update_num_iterations(num_iterations, -1) = U32(0)
          /\ num_iterations = U32_MAX => update_num_iterations(num_iterations, 1) = U32_MAX
          /\ num_iterations # U32_MAX =>
                 update_num_iterations(update_num_iterations(num_iterations, 1), -1) = num_iterations
          /\ num_iterations = U32_MAX =>
                 update_num_iterations(update_num_iterations(num_iterations, 1), -1) = <<U16 - 1, U16 - 2>>)
    /\ [][/\ handle_key("+", TRUE, TRUE) =>
                /\ U32Leq(num_iterations, num_iterations')
                /\ num_iterations = U32_MAX => num_iterations' = U32_MAX
                /\ num_iterations # U32_MAX => num_iterations' # num_iterations
          /\ handle_key("-", TRUE, TRUE) =>
                /\ U32Leq(num_iterations', num_iterations)
                /\ num_iterations = U32(0) => num_iterations' = U32(0)
                /\ num_iterations # U32(0) => num_iterations' # num_iterations]_vars

\* C29 witness: the count stands at u32::MAX
C29_Witness == app = "Running" /\ num_iterations = U32_MAX /\ scene_index # 0

\* ------------------------------------------------------------ the lifecycle
\* every window event, before and after resumed, accepted and refused by the
\* platform
LifecycleKeys == {"Escape", "t"}

NextLifecycle ==
    \/ \E init_ok \in BOOLEAN : resumed(1920, 1080, init_ok)
    \/ close_requested
    \/ \E event \in SessionEvents : event_before_initialization(event)
    \/ \E dt \in 0..MaxDt, frame_ok \in BOOLEAN : draw(dt, frame_ok)
    \/ \E width \in {0, 1080} : resize(width, 1080)
    \/ \E key \in LifecycleKeys, pressed \in BOOLEAN : handle_key(key, pressed, TRUE)
    \/ \E cursor \in LookPositions, platform_ok \in BOOLEAN : handle_cursor_movement(cursor, platform_ok)
    \/ \E platform_ok \in BOOLEAN : handle_mouse("Left", TRUE, platform_ok)
    \/ movement_per_second = Camera_default.movement_per_second /\ handle_mouse_wheel("PixelDelta", 0, 1)
    \/ \E focused \in BOOLEAN : handle_focused(focused, TRUE)

SpecLifecycle == InitDebug /\ [][NextLifecycle]_vars

\* the session: everything but the lifecycle state
Session ==
    <<env_vars, reload_vars, blit_vars, cursor_vars, parameters_vars, frame_vars, held_keys, keys_down,
      camera_vars, time_factor>>

\* C30: the app starts Uninitialized and becomes Running only through resumed;
\* a close request is handled in both states and ends the event loop; every
\* other handled window event that arrives while Uninitialized aborts the
\* process and changes nothing of the session; the app never returns to
\* Uninitialized; an error returned by an event handler (a frame that cannot
\* be acquired, a pointer that cannot be re-centred) terminates the process,
\* and a terminated process stays terminated.
C30_Lifecycle ==
    /\ app = "Uninitialized"
    /\ [](app \in {"Uninitialized", "Running"} => ENABLED close_requested)
    /\ [](app = "Uninitialized" => \A event \in SessionEvents : ENABLED event_before_initialization(event))
    /\ [][/\ app' = "Running" /\ app # "Running" =>
                /\ app = "Uninitialized"
                /\ \E init_ok \in BOOLEAN : resumed(1920, 1080, init_ok)
          /\ close_requested => app' = "Exited" /\ UNCHANGED Session
          /\ (app = "Uninitialized" /\ ~close_requested /\ app' # "Running") =>
                /\ app' = "Aborted"
                /\ (\E event \in SessionEvents : event_before_initialization(event)) => UNCHANGED Session
          /\ app # "Uninitialized" => app' # "Uninitialized"
          /\ \A dt \in 0..MaxDt : draw(dt, FALSE) => app' = "Aborted"
          /\ \A cursor \in LookPositions :
                (CursorLive /\ handle_cursor_movement(cursor, FALSE)) => app' = "Aborted"
          /\ app \in {"Aborted", "Exited"} => app' = app]_vars

\* C30 witness: an event arrived before resumed and ended the process with the
\* session as it was constructed
C30_Witness ==
    /\ app = "Aborted"
    /\ window_size = <<0, 0>>
    /\ pipelines_created = 0
    /\ frame = <<>>
====
